---- MODULE Spec2Model ----
(***************************************************************************)
(* A model of mcp-rag-server: the Indexer (cold build, incremental update),*)
(* the Persistence layer (save / load of the JSON index store), the status *)
(* manager, path sandboxing (ensureWithinRoot), and the rag_query and      *)
(* read_file tool handlers.                                                *)
(*                                                                         *)
(* Strings that the code slices, splits or prefix-tests are sequences of   *)
(* one-character strings; a Float32 is its 32-bit pattern.                  *)
(***************************************************************************)
EXTENDS Integers, Sequences, FiniteSets, TLC

VARIABLES
    \* ---- path sandbox / read_file (SpecPath)
    pRoot,      \* the configured REPO_ROOT
    pOp,        \* last operation applied: "none", "ensure", "read_file"
    pArg,       \* the path argument of the last operation
    pStart,     \* read_file: startLine argument (Null when not given)
    pEnd,       \* read_file: endLine argument (Null when not given)
    pResult,    \* its outcome
    \* ---- rag_query (SpecQuery)
    qDocs,      \* the corpus returned by indexer.getDocs()
    qQuery,     \* the query argument
    qTopK,      \* the top_k argument (Null when not given)
    qEmb,       \* what embeddings.embed(query) resolves to
    qOp,        \* "none" until the handler has run
    qResult,    \* the handler's outcome
    \* ---- Persistence.save / load on their own (SpecPersist)
    sDocs,      \* the in-memory corpus handed to save
    sStore,     \* the index store file
    sParams,    \* chunkSize / chunkOverlap / modelName given to save
    sLoadParams,\* ... and to load
    sOp,        \* "none", "saved", "loaded" (store as found), "reloaded" (after save)
    sLoaded,    \* what load returned
    \* ---- the server process: Indexer, StatusManager, file system (Spec)
    fs,         \* the files under REPO_ROOT: path -> [exists, content, readable]
    store,      \* the index store file at INDEX_STORE_PATH
    cfg,        \* the Indexer's chunkSize, chunkOverlap, modelName, storePath
    docs,       \* Indexer.docs, the in-memory corpus
    built,      \* Indexer.built
    status,     \* statusManager's ready flag and indexing counters
    pc,         \* where build() stands
    queue,      \* the files the running loop has still to take
    pending,    \* incremental update: chunks of the current file still to embed
    curFile,    \* incremental update: the file those chunks belong to
    idCounter,  \* the idCounter local of the running pass
    embIdx,     \* cold build: the index i of the embedding loop
    embeddedChunks, \* incremental update: the embeddedChunks local
    \* ---- history kept for stating properties
    mode,       \* the path the current build() took: "none", "cold", "incr"
    loadedDocs, \* the docs load returned to the current build()
    discovered, \* the fileInfos discoverFiles returned to the current build()
    embedCalls, \* embeddings.embed calls made by the current build()
    nBuilds,    \* build() calls started so far
    since,      \* what happened since the last completed build(): "nothing"
                \* (no build completed), "intact" (its save wrote the store and
                \* nothing else happened), "sized" (no file was added, removed
                \* or resized), "foreign" (the store file was deleted or
                \* overwritten from outside), "other"
    noop,       \* the value of since when the current build() started, "none"
                \* without a store path
    baseline,   \* <<>> or <<[files, resizes, faithful]>>: the files as they were
                \* when the store was last saved, whether every change since
                \* then added, removed or resized a file, and whether the saved
                \* chunks were those of a cold build of the files
    \* ---- Indexer.splitChunks and the constructor applied to bounded inputs
    cText,      \* the text handed to splitChunks
    cSize,      \* its size argument, or the requested chunkSize
    cOverlap,   \* its overlap argument, or the requested chunkOverlap
    cOp,        \* which call was made
    cOut,       \* what the call returned
    \* ---- the entry point: transport selection and GET /health
    useHttp,    \* MCP_TRANSPORT selects the HTTP transport
    transport,  \* statusManager's transport: "unknown" until a transport is started
    health,     \* the last /health response a client received: <<>> or <<r>>
    served,     \* the last tool call handled: <<>> or <<[tool, during, embedded]>>
    \* ---- the list_files tool handler
    lArgs,      \* the arguments of the list_files call and the readdir order
    lOp,        \* "none" before the call, "list_files" after it
    lOut,       \* the handler's outcome: [kind, entries]
    \* ---- PdfExtractor.extractText and its cache
    xFile,      \* pdf-text-cache.json on disk: [kind, entries]
    xStore,     \* the extractor's cacheStore: [loaded, entries]
    xCall,      \* the last extractText call: its arguments, what the parser did, the result
    xCalls,     \* extractText calls made so far
    \* ---- the embedding loops of build(), call by call
    eWork,      \* the chunks to embed, file by file in loop order: each file is
                \* the sequence of its chunk texts
    ePc,        \* "loop" between iterations, "await" while an embed call is awaited, "done", "failed"
    eDone,      \* iterations of the loop completed
    eOut,       \* the embed calls issued and not yet settled
    eLog,       \* every embed call issued, in order of issue
    eCount,     \* statusManager's chunksEmbedded
    \* ---- the streamable HTTP transport and its sessions
    hSess,      \* the sessions created so far, in order: [sid, closing, attached, closes, pending]
    hMap,       \* the keys of the transports map: the session numbers registered
    hLast       \* the last request on /mcp and its answer

pathVars == <<pRoot, pOp, pArg, pStart, pEnd, pResult>>
queryVars == <<qDocs, qQuery, qTopK, qEmb, qOp, qResult>>
persistVars == <<sDocs, sStore, sParams, sLoadParams, sOp, sLoaded>>
envVars == <<fs, store, cfg>>
indexerVars == <<docs, built, status>>
workVars == <<pc, queue, pending, curFile, idCounter, embIdx, embeddedChunks>>
historyVars == <<mode, loadedDocs, discovered, embedCalls, nBuilds, since, noop, baseline>>
buildVars == <<envVars, indexerVars, workVars, historyVars>>
chunkVars == <<cText, cSize, cOverlap, cOp, cOut>>
serverVars == <<useHttp, transport, health, served>>
listVars == <<lArgs, lOp, lOut>>
pdfVars == <<xFile, xStore, xCall, xCalls>>
embedVars == <<eWork, ePc, eDone, eOut, eLog, eCount>>
httpVars == <<hSess, hMap, hLast>>
vars == <<pathVars, queryVars, persistVars, buildVars, chunkVars, serverVars, listVars, pdfVars, embedVars, httpVars>>
notPathVars == <<queryVars, persistVars, buildVars, chunkVars, serverVars, listVars, pdfVars, embedVars, httpVars>>
notQueryVars == <<pathVars, persistVars, buildVars, chunkVars, serverVars, listVars, pdfVars, embedVars, httpVars>>
notPersistVars == <<pathVars, queryVars, buildVars, chunkVars, serverVars, listVars, pdfVars, embedVars, httpVars>>
notBuildVars == <<pathVars, queryVars, persistVars, chunkVars, serverVars, listVars, pdfVars, embedVars, httpVars>>
notChunkVars == <<pathVars, queryVars, persistVars, buildVars, serverVars, listVars, pdfVars, embedVars, httpVars>>
notServerVars == <<pathVars, queryVars, persistVars, buildVars, chunkVars, listVars, pdfVars, embedVars, httpVars>>
notListVars == <<pathVars, queryVars, persistVars, buildVars, chunkVars, serverVars, pdfVars, embedVars, httpVars>>
notPdfVars == <<pathVars, queryVars, persistVars, buildVars, chunkVars, serverVars, listVars, embedVars, httpVars>>
notEmbedVars == <<pathVars, queryVars, persistVars, buildVars, chunkVars, serverVars, listVars, pdfVars, httpVars>>
notHttpVars == <<pathVars, queryVars, persistVars, buildVars, chunkVars, serverVars, listVars, pdfVars, embedVars>>

\* The parts of the state a specification does not exercise stay at rest.
PathIdle ==
    /\ pRoot = <<>>
    /\ pOp = "idle"
    /\ pArg = <<>>
    /\ pStart = <<>>
    /\ pEnd = <<>>
    /\ pResult = [kind |-> "none", val |-> <<>>]

QueryIdle ==
    /\ qDocs = <<>>
    /\ qQuery = <<>>
    /\ qTopK = <<>>
    /\ qEmb = <<>>
    /\ qOp = "idle"
    /\ qResult = [kind |-> "none", matches |-> <<>>]

BuildIdle ==
    /\ fs = <<>>
    /\ store = <<>>
    /\ cfg = <<>>
    /\ docs = <<>>
    /\ built = FALSE
    /\ status = <<>>
    /\ pc = "off"
    /\ queue = <<>>
    /\ pending = <<>>
    /\ curFile = <<>>
    /\ idCounter = 0
    /\ embIdx = 0
    /\ embeddedChunks = 0
    /\ mode = "none"
    /\ loadedDocs = <<>>
    /\ discovered = <<>>
    /\ embedCalls = 0
    /\ nBuilds = 0
    /\ since = "nothing"
    /\ noop = "none"
    /\ baseline = <<>>

PersistIdle ==
    /\ sDocs = <<>>
    /\ sStore = <<>>
    /\ sParams = <<>>
    /\ sLoadParams = <<>>
    /\ sOp = "idle"
    /\ sLoaded = <<>>

ChunkIdle ==
    /\ cText = <<>>
    /\ cSize = 0
    /\ cOverlap = 0
    /\ cOp = "idle"
    /\ cOut = <<>>

ServerIdle ==
    /\ useHttp = FALSE
    /\ transport = "off"
    /\ health = <<>>
    /\ served = <<>>

ListIdle ==
    /\ lArgs = <<>>
    /\ lOp = "off"
    /\ lOut = <<>>

PdfIdle ==
    /\ xFile = <<>>
    /\ xStore = <<>>
    /\ xCall = <<>>
    /\ xCalls = 0

EmbedIdle ==
    /\ eWork = <<>>
    /\ ePc = "off"
    /\ eDone = 0
    /\ eOut = <<>>
    /\ eLog = <<>>
    /\ eCount = 0

HttpIdle ==
    /\ hSess = <<>>
    /\ hMap = {}
    /\ hLast = <<>>

\* ------------------------------------------------------------------------
\* Generic sequence helpers
\* ------------------------------------------------------------------------
Min(a, b) == IF a < b THEN a ELSE b
Max(a, b) == IF a > b THEN a ELSE b

\* JS String.prototype.startsWith on character sequences
StartsWith(s, p) ==
    /\ Len(p) <= Len(s)
    /\ \A i \in 1..Len(p) : s[i] = p[i]

\* JS Array.prototype.slice(s, e) / String.prototype.slice(s, e):
\* positions are 0-based, e exclusive; a negative position counts from the
\* end, and both are clamped to 0..length.
Slice(seq, s, e) ==
    LET lo == IF s < 0 THEN Max(Len(seq) + s, 0) ELSE Min(s, Len(seq))
        hi == IF e < 0 THEN Max(Len(seq) + e, 0) ELSE Min(e, Len(seq))
    IN  IF hi <= lo THEN <<>> ELSE [i \in 1..(hi - lo) |-> seq[lo + i]]

\* ------------------------------------------------------------------------
\* node:path (POSIX) as used by Indexer.ensureWithinRoot
\* ------------------------------------------------------------------------
Sep == "/"

\* process.cwd() of the server process
Cwd == <<"/", "w">>

RECURSIVE SplitSep(_)
\* the "/"-separated segments of a path string (empty segments included)
SplitSep(s) ==
    IF s = <<>> THEN << <<>> >>
    ELSE LET rest == SplitSep(Tail(s))
         IN  IF Head(s) = Sep
             THEN << <<>> >> \o rest
             ELSE << <<Head(s)>> \o Head(rest) >> \o Tail(rest)

RECURSIVE JoinSep(_)
JoinSep(segs) ==
    IF segs = <<>> THEN <<>>
    ELSE IF Len(segs) = 1 THEN Head(segs)
    ELSE Head(segs) \o <<Sep>> \o JoinSep(Tail(segs))

RECURSIVE NormalizeSegs(_, _)
\* normalizeString for an absolute path: "" and "." are dropped, ".." pops
\* the last kept segment and is dropped at the root.
NormalizeSegs(segs, acc) ==
    IF segs = <<>> THEN acc
    ELSE LET s == Head(segs)
         IN  IF s = <<>> \/ s = <<".">>
             THEN NormalizeSegs(Tail(segs), acc)
             ELSE IF s = <<".", ".">>
             THEN NormalizeSegs(Tail(segs),
                                IF acc = <<>> THEN acc
                                ELSE SubSeq(acc, 1, Len(acc) - 1))
             ELSE NormalizeSegs(Tail(segs), Append(acc, s))

IsAbsolute(p) == p # <<>> /\ p[1] = Sep

RECURSIVE ResolveJoin(_, _)
\* path.resolve's right-to-left scan: prepend arguments until one is
\* absolute; empty arguments are skipped; cwd is the last resort.
ResolveJoin(args, acc) ==
    IF args = <<>> THEN Cwd \o <<Sep>> \o acc
    ELSE LET p == args[Len(args)]
             rest == SubSeq(args, 1, Len(args) - 1)
         IN  IF p = <<>> THEN ResolveJoin(rest, acc)
             ELSE IF IsAbsolute(p) THEN p \o <<Sep>> \o acc
             ELSE ResolveJoin(rest, p \o <<Sep>> \o acc)

\* the normalised segments of path.resolve(...args)
ResolveSegs(args) == NormalizeSegs(SplitSep(ResolveJoin(args, <<>>)), <<>>)

\* path.resolve(...args): always an absolute, normalised path string
Resolve(args) == <<Sep>> \o JoinSep(ResolveSegs(args))

\* the prefix that ensureWithinRoot tests abs against
NormRootNoSep(root) == Resolve(<<root>>)
NormRoot(root) == Resolve(<<root>>) \o <<Sep>>

\* Indexer.ensureWithinRoot(root, relPath): [ok |-> TRUE, abs |-> path] or
\* [ok |-> FALSE, ...] when McpError(InvalidRequest, "Path outside ROOT")
\* is thrown.
ensureWithinRoot(root, relPath) ==
    LET abs == Resolve(<<root, relPath>>)
        normRoot == NormRoot(root)
    IN  IF abs # Resolve(<<root>>) /\ ~StartsWith(abs, normRoot)
        THEN [ok |-> FALSE, abs |-> abs]
        ELSE [ok |-> TRUE, abs |-> abs]

\* ------------------------------------------------------------------------
\* read_file tool handler
\* ------------------------------------------------------------------------
\* an optional numeric argument: Null when absent, <<n>> when given
Null == <<>>
NL == "\n"
CR == "\r"

RECURSIVE SplitLines(_)
\* content.split(/\r?\n/)
SplitLines(s) ==
    IF s = <<>> THEN << <<>> >>
    ELSE IF Head(s) = NL THEN << <<>> >> \o SplitLines(Tail(s))
    ELSE IF Head(s) = CR /\ Len(s) >= 2 /\ s[2] = NL
         THEN << <<>> >> \o SplitLines(Tail(Tail(s)))
    ELSE LET rest == SplitLines(Tail(s))
         IN  << <<Head(s)>> \o Head(rest) >> \o Tail(rest)

RECURSIVE JoinLines(_)
\* lines.join("\n")
JoinLines(lines) ==
    IF lines = <<>> THEN <<>>
    ELSE IF Len(lines) = 1 THEN Head(lines)
    ELSE Head(lines) \o <<NL>> \o JoinLines(Tail(lines))

\* The files on disk that read_file can reach: absolute path -> content.
DiskFiles ==
    ( <<"/", "r", "/", "a">>      :> <<"x", NL, "y", CR, NL, "z">> ) @@
    ( <<"/", "r", "x", "/", "a">> :> <<"s">> ) @@
    ( <<"/", "a">>                :> <<"o", NL>> ) @@
    ( <<"/", "r", "/", "d", ".", "p", "d", "f">> :> <<"%", "P">> ) @@
    ( <<"/", "r", "x", "/", "d", ".", "P", "D", "F">> :> <<"%", "Q">> ) @@
    ( <<"/", "w", "r", "/", "a">> :> <<"w">> )

\* the resolved path the handler hands to fs.readFile
ReadFileTarget(root, rel) == ensureWithinRoot(root, rel)

\* CallTool "read_file": {path, startLine, endLine}
ReadFileHandler(root, rel, startLine, endLine) ==
    IF rel = <<>> THEN [kind |-> "InvalidRequest", val |-> <<>>]   \* Missing path
    ELSE LET r == ReadFileTarget(root, rel)
         IN  IF ~r.ok THEN [kind |-> "InvalidRequest", val |-> <<>>]
             ELSE IF r.abs \notin DOMAIN DiskFiles
             THEN [kind |-> "IOError", val |-> <<>>]            \* fs.readFile rejects
             ELSE LET content == DiskFiles[r.abs]
                  IN  IF startLine # Null \/ endLine # Null
                      THEN LET lines == SplitLines(content)
                               s == Max(0, (IF startLine = Null THEN 1 ELSE startLine[1]) - 1)
                               e == Min(Len(lines),
                                        IF endLine = Null THEN Len(lines) ELSE endLine[1])
                           IN  [kind |-> "Content",
                                val |-> JoinLines(Slice(lines, s, e))]
                      ELSE [kind |-> "Content", val |-> content]

\* ------------------------------------------------------------------------
\* SpecPath: the path sandbox and read_file applied to bounded inputs
\* ------------------------------------------------------------------------
MaxSegs == 2
MaxLine == 4

DotDot == <<".", ".">>
PathSegs == { DotDot, <<".">>, <<>>, <<"r">>, <<"r", "x">>, <<"a">>, <<"o">>,
              <<"d", ".", "p", "d", "f">>, <<"d", ".", "P", "D", "F">> }

Roots == { <<"/">>, <<"/", "r">>, <<"/", "r", "/">>, <<"/", "r", "x">>,
           <<"r">>, <<"/", "r", "/", ".", ".", "/", "r">> }

SegLists == UNION { [1..n -> PathSegs] : n \in 0..MaxSegs }
PathArgs == { JoinSep(l) : l \in SegLists } \cup
            { <<Sep>> \o JoinSep(l) : l \in SegLists }
LineArgs == { Null } \cup { <<n>> : n \in -1..MaxLine }

PathInit ==
    /\ HttpIdle
    /\ EmbedIdle
    /\ PdfIdle
    /\ ListIdle
    /\ ServerIdle
    /\ ChunkIdle
    /\ QueryIdle
    /\ PersistIdle
    /\ BuildIdle
    /\ pRoot \in Roots
    /\ pOp = "none"
    /\ pArg = <<>>
    /\ pStart = Null
    /\ pEnd = Null
    /\ pResult = [kind |-> "none", val |-> <<>>]

\* a caller invokes Indexer.ensureWithinRoot(root, relPath)
EnsureWithinRootCall ==
    /\ pOp = "none"
    /\ \E rel \in PathArgs :
        LET r == ensureWithinRoot(pRoot, rel)
        IN  /\ pOp' = "ensure"
            /\ pArg' = rel
            /\ pStart' = Null
            /\ pEnd' = Null
            /\ pResult' = [kind |-> IF r.ok THEN "Path" ELSE "InvalidRequest",
                           val |-> IF r.ok THEN r.abs ELSE <<>>]
            /\ UNCHANGED <<pRoot, notPathVars>>

\* a client calls the read_file tool
ReadFileCall ==
    /\ pOp = "none"
    /\ \E rel \in PathArgs, s \in LineArgs, e \in LineArgs :
        /\ pOp' = "read_file"
        /\ pArg' = rel
        /\ pStart' = s
        /\ pEnd' = e
        /\ pResult' = ReadFileHandler(pRoot, rel, s, e)
        /\ UNCHANGED <<pRoot, notPathVars>>

PathNext == EnsureWithinRootCall \/ ReadFileCall

SpecPath == PathInit /\ [][PathNext]_vars

\* ---- C8 ----------------------------------------------------------------
\* segs is the root's segment list or an extension of it: the path is the
\* root or lies under it, whole segments compared.
SegPrefix(p, s) == Len(p) <= Len(s) /\ SubSeq(s, 1, Len(p)) = p

WithinRoot(root, rel) == SegPrefix(ResolveSegs(<<root>>), ResolveSegs(<<root, rel>>))

\* C8: ensureWithinRoot returns a path only when the normalised resolution
\* of relPath against root is root or lies under it, and throws otherwise;
\* "../o" is rejected for every root, a sibling whose name extends root's
\* name is rejected, and "." and "" give the (normalised) root itself.
C8_EnsureWithinRoot ==
    pOp = "ensure" =>
        /\ pResult.kind = "Path" =>
              /\ WithinRoot(pRoot, pArg)
              /\ pResult.val = Resolve(<<pRoot, pArg>>)
        /\ ~WithinRoot(pRoot, pArg) => pResult.kind = "InvalidRequest"
        /\ pArg = DotDot \o <<Sep, "o">> => pResult.kind = "InvalidRequest"
        /\ (pRoot = <<"/", "r">> /\ pArg = DotDot \o <<Sep, "r", "x">>)
              => pResult.kind = "InvalidRequest"
        /\ (pRoot = <<"/", "r">> /\ pArg = <<"/", "r", "x", "/", "a">>)
              => pResult.kind = "InvalidRequest"
        /\ pArg \in { <<".">>, <<>> } =>
              /\ pResult.kind = "Path"
              /\ pResult.val = Resolve(<<pRoot>>)

\* a sibling directory sharing root's name as a prefix was tried and refused
C8_Witness ==
    /\ pOp = "ensure"
    /\ pRoot = <<"/", "r">>
    /\ pArg = DotDot \o <<Sep, "r", "x">>
    /\ pResult.kind = "InvalidRequest"

\* ---- C9 ----------------------------------------------------------------
\* C9 (as claimed): read_file answers every absolute path argument with an
\* invalid-request error, inside REPO_ROOT or not.
C9_AbsoluteRejected ==
    (pOp = "read_file" /\ IsAbsolute(pArg)) => pResult.kind = "InvalidRequest"

\* ------------------------------------------------------------------------
\* Doc (types.ts) and the values of a parsed JSON store
\* ------------------------------------------------------------------------
\* A Doc is [id, path, chunk, text, fileSize, lineCount, emb]; id, path and
\* text are character sequences, emb is optional: [has, v] with v the
\* Float32Array's components.
NoEmb == [has |-> FALSE, v |-> <<>>]
EmbOf(v) == [has |-> TRUE, v |-> v]

MkDoc(id, path, chunk, text, fileSize, lineCount, emb) ==
    [id |-> id, path |-> path, chunk |-> chunk, text |-> text,
     fileSize |-> fileSize, lineCount |-> lineCount, emb |-> emb]

\* A JSON value by its JavaScript type: t is what typeof / Array.isArray
\* tell ("string", "number", "array", "undefined" for anything else), with
\* the payload in s (string), n (number) or a (array of numbers).
JStr(str) == [t |-> "string", s |-> str, n |-> 0, a |-> <<>>]
JNum(num) == [t |-> "number", s |-> <<>>, n |-> num, a |-> <<>>]
JArr(arr) == [t |-> "array", s |-> <<>>, n |-> 0, a |-> arr]
JUndef == [t |-> "undefined", s |-> <<>>, n |-> 0, a |-> <<>>]

\* ------------------------------------------------------------------------
\* Float32Array <-> bytes <-> base64 (Buffer)
\* ------------------------------------------------------------------------
RECURSIVE Pow2(_)
Pow2(k) == IF k = 0 THEN 1 ELSE 2 * Pow2(k - 1)

\* floor(log2(m)) for m >= 1
Log2(m) == CHOOSE e \in 0..23 : Pow2(e) <= m /\ m < Pow2(e + 1)

\* The IEEE-754 binary32 pattern of an integer-valued component as its
\* sign, biased exponent and 23-bit mantissa.
F32Fields(x) ==
    IF x = 0 THEN [sign |-> 0, ex |-> 0, man |-> 0]
    ELSE LET m == IF x < 0 THEN -x ELSE x
             e == Log2(m)
         IN  [sign |-> IF x < 0 THEN 1 ELSE 0,
              ex |-> e + 127,
              man |-> (m - Pow2(e)) * Pow2(23 - e)]

\* the four bytes of the pattern, most significant first
F32BytesBE(x) ==
    LET f == F32Fields(x)
    IN  << f.sign * 128 + f.ex \div 2,
           (f.ex % 2) * 128 + f.man \div 65536,
           (f.man \div 256) % 256,
           f.man % 256 >>

\* the bytes as they lie in a Float32Array's buffer (little-endian host)
F32BytesLE(x) ==
    LET b == F32BytesBE(x) IN << b[4], b[3], b[2], b[1] >>

\* the value of the binary32 pattern held in four little-endian bytes
\* (integer-valued normal numbers and 0)
F32Value(b) ==
    LET sign == b[4] \div 128
        ex == (b[4] % 128) * 2 + b[3] \div 128
        man == (b[3] % 128) * 65536 + b[2] * 256 + b[1]
        mag == IF ex = 0 THEN 0
               ELSE IF ex >= 150 THEN (Pow2(23) + man) * Pow2(ex - 150)
               ELSE (Pow2(23) + man) \div Pow2(150 - ex)
    IN  IF sign = 1 THEN -mag ELSE mag

RECURSIVE FloatsToBytes(_)
\* the bytes of a Float32Array's buffer (little-endian host)
FloatsToBytes(v) ==
    IF v = <<>> THEN <<>> ELSE F32BytesLE(Head(v)) \o FloatsToBytes(Tail(v))

RECURSIVE BytesToFloats(_)
\* new Float32Array(buf.buffer, buf.byteOffset, buf.byteLength / 4)
BytesToFloats(b) ==
    IF Len(b) < 4 THEN <<>>
    ELSE <<F32Value(SubSeq(b, 1, 4))>> \o BytesToFloats(SubSeq(b, 5, Len(b)))

B64Alphabet ==
    << "A", "B", "C", "D", "E", "F", "G", "H", "I", "J", "K", "L", "M",
       "N", "O", "P", "Q", "R", "S", "T", "U", "V", "W", "X", "Y", "Z",
       "a", "b", "c", "d", "e", "f", "g", "h", "i", "j", "k", "l", "m",
       "n", "o", "p", "q", "r", "s", "t", "u", "v", "w", "x", "y", "z",
       "0", "1", "2", "3", "4", "5", "6", "7", "8", "9", "+", "/" >>
B64Pad == "="
B64Char(v) == B64Alphabet[v + 1]
IsB64Char(c) == \E i \in 1..64 : B64Alphabet[i] = c
B64Val(c) == (CHOOSE i \in 1..64 : B64Alphabet[i] = c) - 1

RECURSIVE Base64Encode(_)
\* buf.toString("base64")
Base64Encode(b) ==
    IF b = <<>> THEN <<>>
    ELSE IF Len(b) = 1
         THEN << B64Char(b[1] \div 4), B64Char((b[1] % 4) * 16), B64Pad, B64Pad >>
    ELSE IF Len(b) = 2
         THEN << B64Char(b[1] \div 4),
                 B64Char((b[1] % 4) * 16 + b[2] \div 16),
                 B64Char((b[2] % 16) * 4), B64Pad >>
    ELSE << B64Char(b[1] \div 4),
            B64Char((b[1] % 4) * 16 + b[2] \div 16),
            B64Char((b[2] % 16) * 4 + b[3] \div 64),
            B64Char(b[3] % 64) >> \o Base64Encode(SubSeq(b, 4, Len(b)))

RECURSIVE B64Sextets(_)
\* the sextets of a base64 string: decoding stops at the first "=",
\* characters outside the alphabet are skipped
B64Sextets(str) ==
    IF str = <<>> \/ Head(str) = B64Pad THEN <<>>
    ELSE IF IsB64Char(Head(str)) THEN <<B64Val(Head(str))>> \o B64Sextets(Tail(str))
    ELSE B64Sextets(Tail(str))

RECURSIVE SextetsToBytes(_)
SextetsToBytes(x) ==
    IF Len(x) < 2 THEN <<>>
    ELSE IF Len(x) = 2 THEN << x[1] * 4 + x[2] \div 16 >>
    ELSE IF Len(x) = 3
         THEN << x[1] * 4 + x[2] \div 16, (x[2] % 16) * 16 + x[3] \div 4 >>
    ELSE << x[1] * 4 + x[2] \div 16,
            (x[2] % 16) * 16 + x[3] \div 4,
            (x[3] % 4) * 64 + x[4] >> \o SextetsToBytes(SubSeq(x, 5, Len(x)))

\* Buffer.from(str, "base64")
Base64Decode(str) == SextetsToBytes(B64Sextets(str))

\* save: the emb property of a serialised doc
RECURSIVE FloatsToBytesBE(_)
FloatsToBytesBE(v) ==
    IF v = <<>> THEN <<>> ELSE F32BytesBE(Head(v)) \o FloatsToBytesBE(Tail(v))

EncodeEmbBE(emb) == IF emb.has THEN Base64Encode(FloatsToBytesBE(emb.v)) ELSE <<>>
EncodeEmb(emb) == IF emb.has THEN Base64Encode(FloatsToBytes(emb.v)) ELSE <<>>

\* load: the Float32Array decoded from a record's emb, NoEmb when arr
\* stays null
DecodeEmb(j) ==
    IF j.t = "array" THEN EmbOf(j.a)
    ELSE IF j.t = "string"
         THEN LET buf == Base64Decode(j.s)
              IN  IF Len(buf) % 4 = 0 THEN EmbOf(BytesToFloats(buf)) ELSE NoEmb
    ELSE NoEmb

\* ------------------------------------------------------------------------
\* Persistence.save / Persistence.load
\* ------------------------------------------------------------------------
\* The index store file: kind "missing" (no file), "invalid" (not JSON),
\* or "json" with the parsed value in hasDocs (Array.isArray(parsed.docs)),
\* meta and docs.
MissingStore == [kind |-> "missing", hasDocs |-> FALSE,
                 meta |-> [chunkSize |-> JUndef, chunkOverlap |-> JUndef,
                           modelName |-> JUndef],
                 docs |-> <<>>]
InvalidStore == [MissingStore EXCEPT !.kind = "invalid"]
NoDocsStore == [MissingStore EXCEPT !.kind = "json"]

\* docs.map(d => ({id, path, chunk, text, fileSize, lineCount, emb}))
SerializeDoc(d) ==
    [obj |-> TRUE, id |-> JStr(d.id), path |-> JStr(d.path),
     chunk |-> JNum(d.chunk), text |-> JStr(d.text),
     fileSize |-> JNum(d.fileSize), lineCount |-> JNum(d.lineCount),
     emb |-> JStr(EncodeEmb(d.emb))]

\* what save writes for docs under params = [chunkSize, chunkOverlap,
\* modelName]
SavedStore(ds, params) ==
    [kind |-> "json", hasDocs |-> TRUE,
     meta |-> [chunkSize |-> JNum(params.chunkSize),
               chunkOverlap |-> JNum(params.chunkOverlap),
               modelName |-> JStr(params.modelName)],
     docs |-> [i \in 1..Len(ds) |-> SerializeDoc(ds[i])]]

\* Persistence.save: the store file afterwards; a failed write is logged
\* and leaves the file as it was
Save(file, ds, params, writeOk) ==
    IF writeOk THEN SavedStore(ds, params) ELSE file

\* the per-record test of load's loop: a record is kept when it is an
\* object with the five typed fields and arr is not null
LoadKeepsNoSizeCheck(d) ==
    /\ d.obj
    /\ d.id.t = "string"
    /\ d.path.t = "string"
    /\ d.chunk.t = "number"
    /\ d.text.t = "string"
    /\ DecodeEmb(d.emb).has
LoadKeeps(d) ==
    /\ d.obj
    /\ d.id.t = "string"
    /\ d.path.t = "string"
    /\ d.chunk.t = "number"
    /\ d.text.t = "string"
    /\ d.fileSize.t = "number"
    /\ DecodeEmb(d.emb).has

DeserializeDoc(d) ==
    MkDoc(d.id.s, d.path.s, d.chunk.n, d.text.s, d.fileSize.n,
          IF d.lineCount.t = "number" /\ d.lineCount.n > 0 THEN d.lineCount.n ELSE -1,
          DecodeEmb(d.emb))

RECURSIVE LoadDocs(_)
LoadDocs(wire) ==
    IF wire = <<>> THEN <<>>
    ELSE IF LoadKeeps(Head(wire))
         THEN <<DeserializeDoc(Head(wire))>> \o LoadDocs(Tail(wire))
         ELSE LoadDocs(Tail(wire))

\* meta.chunkSize !== chunkSize || meta.chunkOverlap !== chunkOverlap ||
\* (meta.modelName && meta.modelName !== modelName)
MetaIncompatibleNoSize(meta, params) ==
    \/ ~(meta.chunkOverlap.t = "number" /\ meta.chunkOverlap.n = params.chunkOverlap)
    \/ /\ ~(meta.modelName.t = "undefined")
       /\ ~(meta.modelName.t = "string" /\ meta.modelName.s = <<>>)
       /\ ~(meta.modelName.t = "string" /\ meta.modelName.s = params.modelName)
MetaIncompatible(meta, params) ==
    \/ ~(meta.chunkSize.t = "number" /\ meta.chunkSize.n = params.chunkSize)
    \/ ~(meta.chunkOverlap.t = "number" /\ meta.chunkOverlap.n = params.chunkOverlap)
    \/ /\ ~(meta.modelName.t = "undefined")
       /\ ~(meta.modelName.t = "string" /\ meta.modelName.s = <<>>)
       /\ ~(meta.modelName.t = "string" /\ meta.modelName.s = params.modelName)

\* Persistence.load: [null |-> TRUE, ...] or the docs read
LoadAlwaysNull(file, params) == [null |-> TRUE, docs |-> <<>>]
Load(file, params) ==
    IF file.kind = "missing" THEN [null |-> TRUE, docs |-> <<>>]
    ELSE IF file.kind = "invalid" THEN [null |-> TRUE, docs |-> <<>>]  \* caught
    ELSE IF ~file.hasDocs THEN [null |-> TRUE, docs |-> <<>>]
    ELSE IF MetaIncompatible(file.meta, params) THEN [null |-> TRUE, docs |-> <<>>]
    ELSE [null |-> FALSE, docs |-> LoadDocs(file.docs)]

\* ------------------------------------------------------------------------
\* Embeddings.cosine and the rag_query tool handler
\* ------------------------------------------------------------------------
\* An embedding is a sequence of Float32 components; the model uses
\* components with small integer values.  Scores are kept in units of
\* 1/ScoreScale, the precision of the handler's toFixed(4).
ScoreScale == 10000
DefaultTopK == 5
MaxTopK == 50

\* Math.sqrt on the perfect squares that occur as squared norms
Isqrt(n) == CHOOSE r \in 0..n : r * r <= n /\ (r + 1) * (r + 1) > n

RECURSIVE DotUpTo(_, _, _)
DotUpTo(a, b, n) == IF n = 0 THEN 0 ELSE DotUpTo(a, b, n - 1) + a[n] * b[n]

\* Embeddings.cosine(a, b): dot / (sqrt(na) * sqrt(nb) + 1e-10) over the
\* shorter length.  The 1e-10 only matters when a norm is 0 (the result is
\* then 0 instead of NaN).
Cosine(a, b) ==
    LET n == Min(Len(a), Len(b))
        dot == DotUpTo(a, b, n)
        na == DotUpTo(a, a, n)
        nb == DotUpTo(b, b, n)
    IN  IF na = 0 \/ nb = 0 THEN 0
        ELSE (dot * ScoreScale) \div (Isqrt(na) * Isqrt(nb))

RECURSIVE InsertDesc(_, _)
\* place r behind every element that does not sort after it under the
\* comparator (a, b) => b.s - a.s
InsertDesc(sorted, r) ==
    IF sorted = <<>> THEN <<r>>
    ELSE IF Head(sorted).s >= r.s
         THEN <<Head(sorted)>> \o InsertDesc(Tail(sorted), r)
         ELSE <<r>> \o sorted

RECURSIVE SortDescFrom(_, _)
SortDescFrom(scored, acc) ==
    IF scored = <<>> THEN acc
    ELSE SortDescFrom(Tail(scored), InsertDesc(acc, Head(scored)))

\* scored.sort((a, b) => b.s - a.s): Array.prototype.sort is stable
SortDesc(scored) == SortDescFrom(scored, <<>>)

\* Math.max(1, Math.min(50, top_k))
ClampTopKNoFloor(topK) == Min(MaxTopK, topK)
ClampTopK(topK) == Max(1, Min(MaxTopK, topK))

\* CallTool "rag_query": {query, top_k}
RagQueryHandler(ds, query, topK, queryEmb) ==
    IF query = <<>> THEN [kind |-> "InvalidRequest", matches |-> <<>>]  \* Missing query
    ELSE IF \E i \in 1..Len(ds) : ~ds[i].emb.has
         THEN [kind |-> "Error", matches |-> <<>>]   \* cosine reads undefined.length
    ELSE LET k == IF topK = Null THEN DefaultTopK ELSE topK[1]
             scored == [i \in 1..Len(ds) |->
                          [d |-> ds[i], s |-> Cosine(ds[i].emb.v, queryEmb)]]
             sorted == SortDesc(scored)
             top == Slice(sorted, 0, ClampTopK(k))
         IN  [kind |-> "Matches",
              matches |-> [i \in 1..Len(top) |->
                              [path |-> top[i].d.path,
                               score |-> top[i].s,
                               snippet |-> top[i].d.text,
                               totalLines |-> top[i].d.lineCount,
                               fileSize |-> top[i].d.fileSize]]]

\* ------------------------------------------------------------------------
\* SpecQuery: rag_query over bounded corpora
\* ------------------------------------------------------------------------
MaxCorpus == 3
BigCorpus == 52

QueryEmbs == { <<3, 4>>, <<4, 3>>, <<5, 0>>, <<-3, 4>>, <<0, 0>>, <<>> }

RECURSIVE Repeat(_, _)
Repeat(c, n) == IF n = 0 THEN <<>> ELSE <<c>> \o Repeat(c, n - 1)

\* the i-th chunk of a one-file corpus; its text tells the chunks apart
QueryDoc(i, emb) ==
    MkDoc(<<"0">>, <<"f">>, i - 1, Repeat("t", i), 9, 1, EmbOf(emb))

CorpusOf(embs) == [i \in 1..Len(embs) |-> QueryDoc(i, embs[i])]

\* a corpus larger than the top_k cap: three embeddings in rotation
BigEmbs == [i \in 1..BigCorpus |->
               IF i % 3 = 0 THEN <<3, 4>> ELSE IF i % 3 = 1 THEN <<5, 0>> ELSE <<0, 0>>]

TopKArgs == { Null } \cup { <<n>> : n \in {-1, 0, 1, 2, 3, 4, 49, 50, 51, 100} }

QueryInit ==
    /\ HttpIdle
    /\ EmbedIdle
    /\ PdfIdle
    /\ ListIdle
    /\ ServerIdle
    /\ ChunkIdle
    /\ PathIdle
    /\ PersistIdle
    /\ BuildIdle
    /\ qDocs \in { CorpusOf(e) : e \in UNION { [1..n -> QueryEmbs] : n \in 0..MaxCorpus } }
                 \cup { CorpusOf(BigEmbs) }
    /\ qEmb \in QueryEmbs
    /\ qQuery = <<>>
    /\ qTopK = Null
    /\ qOp = "none"
    /\ qResult = [kind |-> "none", matches |-> <<>>]

\* a client calls the rag_query tool
RagQueryCall ==
    /\ qOp = "none"
    /\ \E query \in { <<>>, <<"q">> }, k \in TopKArgs :
        /\ qQuery' = query
        /\ qTopK' = k
        /\ qOp' = "rag_query"
        /\ qResult' = RagQueryHandler(qDocs, query, k, qEmb)
        /\ UNCHANGED <<qDocs, qEmb, notQueryVars>>

QueryNext == RagQueryCall

SpecQuery == QueryInit /\ [][QueryNext]_vars

\* ---- C10 ---------------------------------------------------------------
\* the corpus position of the chunk a match was made from
MatchPos(m) == Len(m.snippet)

\* C10: rag_query returns exactly min(corpus size, max(1, min(50, topK)))
\* matches, in non-increasing score order, equal scores in corpus order;
\* topK = 1 gives the one highest-scoring chunk (the first such in the
\* corpus).
C10_RagQueryRanking ==
    (qOp = "rag_query" /\ qQuery # <<>>) =>
        LET m == qResult.matches
            k == IF qTopK = Null THEN DefaultTopK ELSE qTopK[1]
            want == Min(Len(qDocs), Max(1, Min(50, k)))
            Score(i) == Cosine(qDocs[i].emb.v, qEmb)
        IN  /\ qResult.kind = "Matches"
            /\ Len(m) = want
            /\ \A i \in 1..Len(m) :
                  /\ MatchPos(m[i]) \in 1..Len(qDocs)
                  /\ m[i].score = Score(MatchPos(m[i]))
            /\ \A i, j \in 1..Len(m) : i < j =>
                  /\ m[i].score >= m[j].score
                  /\ m[i].score = m[j].score => MatchPos(m[i]) < MatchPos(m[j])
            \* nothing left out scores above, or ties ahead of, a match
            /\ \A i \in 1..Len(m), p \in 1..Len(qDocs) :
                  (\A j \in 1..Len(m) : MatchPos(m[j]) # p) =>
                      \/ Score(p) < m[i].score
                      \/ Score(p) = m[i].score /\ p > MatchPos(m[i])
            /\ (k = 1 /\ Len(qDocs) > 0) =>
                  /\ Len(m) = 1
                  /\ \A p \in 1..Len(qDocs) : Score(p) <= m[1].score

\* a corpus above the cap was queried with top_k = 100 and two chunks of
\* equal score came back
C10_Witness ==
    /\ qOp = "rag_query"
    /\ qTopK = <<100>>
    /\ Len(qDocs) > MaxTopK
    /\ Len(qResult.matches) = MaxTopK
    /\ qResult.matches[1].score = qResult.matches[2].score

\* ------------------------------------------------------------------------
\* SpecPersist: save and load applied to bounded corpora and store files
\* ------------------------------------------------------------------------
MaxPersistDocs == 2

PersistParams ==
    { [chunkSize |-> 800, chunkOverlap |-> 120, modelName |-> <<"m">>],
      [chunkSize |-> 500, chunkOverlap |-> 120, modelName |-> <<"m">>],
      [chunkSize |-> 800, chunkOverlap |-> 100, modelName |-> <<"m">>],
      [chunkSize |-> 800, chunkOverlap |-> 120, modelName |-> <<"n">>] }

\* Docs as a build or a load leaves them in memory: lineCount is the
\* file's line count (>= 1) or -1 (loaded from a record without one).
SampleEmbs == { EmbOf(<<>>), EmbOf(<<-3, 4>>), EmbOf(<<0, 7>>) }

SampleDocs ==
    { MkDoc(id, <<"a">>, Len(id) - 1, t, 3, IF Len(t) = 1 THEN -1 ELSE 2, e) :
        id \in { <<"0">>, <<"1", "2">> },
        t \in { <<"x">>, <<"x", NL>> },
        e \in SampleEmbs \cup { NoEmb } }

SampleCorpora == UNION { [1..n -> SampleDocs] : n \in 0..MaxPersistDocs }

\* Serialised records as a store file may hold them: a well-formed record
\* with at most one property spoilt.
GoodRecord(id, emb) ==
    [obj |-> TRUE, id |-> JStr(id), path |-> JStr(<<"a">>), chunk |-> JNum(0),
     text |-> JStr(<<"x">>), fileSize |-> JNum(3), lineCount |-> JNum(2),
     emb |-> emb]

SampleRecords ==
    LET g(id) == GoodRecord(id, JStr(EncodeEmb(EmbOf(<<1>>))))
    IN  UNION { { g(id),
                  GoodRecord(id, JArr(<<2, 0>>)),
                  GoodRecord(id, JStr(<<>>)),
                  GoodRecord(id, JStr(<<"Q", "Q", "=", "=">>)),
                  GoodRecord(id, JUndef),
                  GoodRecord(id, JNum(1)),
                  [g(id) EXCEPT !.obj = FALSE],
                  [g(id) EXCEPT !.id = JNum(0)],
                  [g(id) EXCEPT !.path = JUndef],
                  [g(id) EXCEPT !.chunk = JStr(<<"0">>)],
                  [g(id) EXCEPT !.text = JUndef],
                  [g(id) EXCEPT !.fileSize = JStr(<<"3">>)],
                  [g(id) EXCEPT !.fileSize = JUndef],
                  [g(id) EXCEPT !.lineCount = JUndef],
                  [g(id) EXCEPT !.lineCount = JNum(0)] } : id \in { <<"0">>, <<"1">> } }

SampleMetas ==
    { [chunkSize |-> JNum(800), chunkOverlap |-> JNum(120), modelName |-> JStr(<<"m">>)],
      [chunkSize |-> JNum(800), chunkOverlap |-> JNum(120), modelName |-> JUndef],
      [chunkSize |-> JNum(800), chunkOverlap |-> JNum(120), modelName |-> JStr(<<>>)],
      [chunkSize |-> JStr(<<"8", "0", "0">>), chunkOverlap |-> JNum(120),
       modelName |-> JStr(<<"m">>)],
      [chunkSize |-> JUndef, chunkOverlap |-> JUndef, modelName |-> JUndef] }

SampleStores ==
    { MissingStore, InvalidStore, NoDocsStore } \cup
    { [kind |-> "json", hasDocs |-> TRUE, meta |-> m, docs |-> d] :
        m \in SampleMetas,
        d \in UNION { [1..n -> SampleRecords] : n \in 0..MaxPersistDocs } }

NotLoaded == [null |-> TRUE, docs |-> <<>>]

PersistInit ==
    /\ HttpIdle
    /\ EmbedIdle
    /\ PdfIdle
    /\ ListIdle
    /\ ServerIdle
    /\ ChunkIdle
    /\ PathIdle
    /\ QueryIdle
    /\ BuildIdle
    /\ \/ /\ sDocs \in SampleCorpora
          /\ sStore = MissingStore
          /\ sParams \in PersistParams
       \/ /\ sDocs = <<>>
          /\ sStore \in SampleStores
          /\ sParams = [chunkSize |-> 800, chunkOverlap |-> 120, modelName |-> <<"m">>]
    /\ sLoadParams = sParams
    /\ sOp = "none"
    /\ sLoaded = NotLoaded

\* persistence.save({docs, chunkSize, chunkOverlap, modelName})
PersistSaveCall ==
    /\ sOp = "none"
    /\ \E writeOk \in BOOLEAN :
          sStore' = Save(sStore, sDocs, sParams, writeOk)
    /\ sOp' = "saved"
    /\ UNCHANGED <<sDocs, sParams, sLoadParams, sLoaded, notPersistVars>>

\* persistence.load({chunkSize, chunkOverlap, modelName})
PersistLoadCall ==
    /\ sOp \in { "none", "saved" }
    /\ \E lp \in PersistParams :
          /\ sLoadParams' = lp
          /\ sLoaded' = Load(sStore, lp)
    /\ sOp' = IF sOp = "saved" THEN "reloaded" ELSE "loaded"
    /\ UNCHANGED <<sDocs, sStore, sParams, notPersistVars>>

PersistNext == PersistSaveCall \/ PersistLoadCall

SpecPersist == PersistInit /\ [][PersistNext]_vars

\* ---- C5 ----------------------------------------------------------------
AllEmbedded(ds) == \A i \in 1..Len(ds) : ds[i].emb.has

\* C5: a corpus whose chunks all have embeddings, saved and then loaded
\* with the same chunkSize, chunkOverlap and modelName, comes back with the
\* same number of chunks in the same order, each with the same id, path,
\* chunk index, text, fileSize, lineCount and embedding components.
C5_RoundTrip ==
    (/\ sOp = "reloaded"
     /\ sStore = SavedStore(sDocs, sParams)
     /\ sLoadParams = sParams
     /\ AllEmbedded(sDocs)) =>
        /\ ~sLoaded.null
        /\ Len(sLoaded.docs) = Len(sDocs)
        /\ \A i \in 1..Len(sDocs) :
              /\ sLoaded.docs[i].id = sDocs[i].id
              /\ sLoaded.docs[i].path = sDocs[i].path
              /\ sLoaded.docs[i].chunk = sDocs[i].chunk
              /\ sLoaded.docs[i].text = sDocs[i].text
              /\ sLoaded.docs[i].fileSize = sDocs[i].fileSize
              /\ sLoaded.docs[i].lineCount = sDocs[i].lineCount
              /\ sLoaded.docs[i].emb.has
              /\ sLoaded.docs[i].emb.v = sDocs[i].emb.v

\* two chunks with non-trivial embeddings went through save and load
C5_Witness ==
    /\ sOp = "reloaded"
    /\ sLoadParams = sParams
    /\ Len(sDocs) = 2
    /\ sDocs[1].emb = EmbOf(<<-3, 4>>)
    /\ sDocs[2].emb = EmbOf(<<0, 7>>)
    /\ ~sLoaded.null
    /\ Len(sLoaded.docs) = 2

\* ---- C7 ----------------------------------------------------------------
\* the number of bytes a base64 string carries
B64ByteCount(str) == (Len(B64Sextets(str)) * 6) \div 8

\* a record with the five typed properties and an embedding that decodes:
\* an array, or base64 text for a whole number of 4-byte floats
ValidRecord(r) ==
    /\ r.obj
    /\ r.id.t = "string" /\ r.path.t = "string" /\ r.chunk.t = "number"
    /\ r.text.t = "string" /\ r.fileSize.t = "number"
    /\ \/ r.emb.t = "array"
       \/ r.emb.t = "string" /\ B64ByteCount(r.emb.s) % 4 = 0

\* the positions of the valid records, in stored order
RECURSIVE ValidPositions(_, _)
ValidPositions(wire, i) ==
    IF i > Len(wire) THEN <<>>
    ELSE (IF ValidRecord(wire[i]) THEN <<i>> ELSE <<>>) \o ValidPositions(wire, i + 1)

FallbackOverlap(chunkSize) == Max(0, (chunkSize * 15) \div 100)

IndexerConfigNoClamp(opts) ==
    [chunkSize |-> opts.chunkSize, chunkOverlap |-> opts.chunkOverlap,
     modelName |-> opts.modelName, storePath |-> opts.storePath]
IndexerConfig(opts) ==
    [chunkSize |-> opts.chunkSize,
     chunkOverlap |-> IF opts.chunkOverlap >= opts.chunkSize
                      THEN FallbackOverlap(opts.chunkSize)
                      ELSE opts.chunkOverlap,
     modelName |-> opts.modelName,
     storePath |-> opts.storePath]

\* the compatibility parameters build() hands to load and save
ParamsOf(c) ==
    [chunkSize |-> c.chunkSize, chunkOverlap |-> c.chunkOverlap,
     modelName |-> c.modelName]

RECURSIVE SplitFromGap(_, _, _, _)
SplitFromGap(text, size, overlap, i) ==
    IF i < Len(text)
    THEN <<Slice(text, i, i + size)>> \o
         SplitFromGap(text, size, overlap, i + Max(1, size - overlap) + 1)
    ELSE <<>>

RECURSIVE SplitFromInclusive(_, _, _, _)
SplitFromInclusive(text, size, overlap, i) ==
    IF i <= Len(text)
    THEN <<Slice(text, i, i + size)>> \o
         SplitFromInclusive(text, size, overlap, i + Max(1, size - overlap))
    ELSE <<>>

RECURSIVE SplitFrom(_, _, _, _)
SplitFrom(text, size, overlap, i) ==
    IF i < Len(text)
    THEN <<Slice(text, i, i + size)>> \o
         SplitFrom(text, size, overlap, i + Max(1, size - overlap))
    ELSE <<>>

RECURSIVE SplitUntilEnd(_, _, _, _)
SplitUntilEnd(text, size, overlap, i) ==
    IF i < Len(text)
    THEN <<Slice(text, i, i + size)>> \o
         (IF i + size >= Len(text) THEN <<>>
          ELSE SplitUntilEnd(text, size, overlap, i + Max(1, size - overlap)))
    ELSE <<>>

\* Indexer.splitChunks(text, size, overlap)
splitChunksUntilEnd(text, size, overlap) == SplitUntilEnd(text, size, overlap, 0)
splitChunksFromBefore(text, size, overlap) == SplitFrom(text, size, overlap, -1)
splitChunks(text, size, overlap) == SplitFrom(text, size, overlap, 0)

\* content.split(/\r?\n/).length
LineCount(content) == Len(SplitLines(content))

\* The indexed tree: the relative paths with an allowed extension, in the
\* order fast-glob reports them.
Paths == << <<"a">>, <<"b">> >>
PathSet == { Paths[i] : i \in 1..Len(Paths) }

\* st.size
FileSize(f) == Len(f.content)

RECURSIVE DiscoverFrom(_, _)
DiscoverFrom(files, i) ==
    IF i > Len(Paths) THEN <<>>
    ELSE LET f == files[Paths[i]]
         IN  (IF f.exists /\ FileSize(f) # 0
              THEN << [rel |-> Paths[i], size |-> FileSize(f)] >>
              ELSE <<>>) \o DiscoverFrom(files, i + 1)

\* Indexer.discoverFiles(): regular, non-empty files with their sizes
discoverFiles(files) == DiscoverFrom(files, 1)

\* Indexer.readFileContent: null when the file cannot be read or is a PDF
\* without text
readFileContent(files, rel) ==
    IF files[rel].readable
    THEN [null |-> FALSE, text |-> files[rel].content]
    ELSE [null |-> TRUE, text |-> <<>>]

\* embeddings.embed(text): the provider is a function of the text
CharCode(c) == IF c = "x" THEN 1 ELSE IF c = "y" THEN 2 ELSE 3
RECURSIVE EmbedSum(_, _)
EmbedSum(text, i) ==
    IF i > Len(text) THEN 0 ELSE i * CharCode(text[i]) + EmbedSum(text, i + 1)
Embed(text) == << EmbedSum(text, 1) >>

DigitChars == << "0", "1", "2", "3", "4", "5", "6", "7", "8", "9" >>
IsDigit(c) == \E i \in 1..10 : DigitChars[i] = c
DigitVal(c) == (CHOOSE i \in 1..10 : DigitChars[i] = c) - 1

RECURSIVE ToDecimal(_)
\* `${n}` for n >= 0
ToDecimal(n) ==
    IF n < 10 THEN << DigitChars[n + 1] >>
    ELSE ToDecimal(n \div 10) \o << DigitChars[(n % 10) + 1] >>

RECURSIVE DigitsValue(_, _)
DigitsValue(str, acc) ==
    IF str = <<>> THEN acc ELSE DigitsValue(Tail(str), acc * 10 + DigitVal(Head(str)))

\* Number(id): finite for "" (0) and for decimal digits, NaN otherwise
JsNumber(str) ==
    IF \A i \in 1..Len(str) : IsDigit(str[i])
    THEN [finite |-> TRUE, n |-> DigitsValue(str, 0)]
    ELSE [finite |-> FALSE, n |-> 0]

RECURSIVE MaxIdFrom(_, _)
MaxIdFrom(ds, max) ==
    IF ds = <<>> THEN max
    ELSE LET num == JsNumber(Head(ds).id)
         IN  MaxIdFrom(Tail(ds), IF num.finite /\ num.n > max THEN num.n ELSE max)

\* Indexer.getMaxId()
getMaxIdEmpty(ds) == -1
getMaxId(ds) == MaxIdFrom(ds, -1)

\* the docs a file's chunks become; emb is set by the embedding loop
ChunkDocsFromOne(rel, size, content, c, firstId) ==
    LET chunks == splitChunks(content, c.chunkSize, c.chunkOverlap)
    IN  [i \in 1..Len(chunks) |->
            MkDoc(ToDecimal(firstId + i - 1), rel, i, chunks[i], size,
                  LineCount(content), NoEmb)]
ChunkDocsPerFileIds(rel, size, content, c, firstId) ==
    LET chunks == splitChunks(content, c.chunkSize, c.chunkOverlap)
    IN  [i \in 1..Len(chunks) |->
            MkDoc(ToDecimal(i - 1), rel, i - 1, chunks[i], size,
                  LineCount(content), NoEmb)]
ChunkDocs(rel, size, content, c, firstId) ==
    LET chunks == splitChunks(content, c.chunkSize, c.chunkOverlap)
    IN  [i \in 1..Len(chunks) |->
            MkDoc(ToDecimal(firstId + i - 1), rel, i - 1, chunks[i], size,
                  LineCount(content), NoEmb)]

\* what a chunk says about its file: path, chunk index, text, fileSize,
\* lineCount (the id and the embedding left out)
ChunkFacts(ds) ==
    { <<ds[i].path, ds[i].chunk, ds[i].text, ds[i].fileSize, ds[i].lineCount>> :
        i \in 1..Len(ds) }

\* the chunks a cold build makes of the files: every discovered file that
\* can be read, split under the configuration
ColdFacts(files, c) ==
    LET infos == discoverFiles(files)
    IN  UNION { LET content == readFileContent(files, infos[k].rel)
                IN  IF content.null THEN {}
                    ELSE ChunkFacts(ChunkDocs(infos[k].rel, infos[k].size,
                                              content.text, c, 0)) :
                k \in 1..Len(infos) }

\* docs with every chunk of path rel spliced out
WithoutPathNone(ds, rel) == ds
WithoutPath(ds, rel) == SelectSeq(ds, LAMBDA d : d.path # rel)

WithoutPathsFirst(ds, rels) ==
    IF rels = <<>> THEN ds ELSE WithoutPath(ds, Head(rels))
RECURSIVE WithoutPaths(_, _)
WithoutPaths(ds, rels) ==
    IF rels = <<>> THEN ds ELSE WithoutPaths(WithoutPath(ds, Head(rels)), Tail(rels))

\* existingDocs[0]: the first loaded chunk of a path
FirstDocOf(ds, rel) == SelectSeq(ds, LAMBDA d : d.path = rel)[1]
HasDocs(ds, rel) == \E i \in 1..Len(ds) : ds[i].path = rel

\* docsByFile.keys(): the paths of the loaded docs, in first-seen order
RECURSIVE DocPaths(_, _)
DocPaths(ds, seen) ==
    IF ds = <<>> THEN <<>>
    ELSE IF Head(ds).path \in seen THEN DocPaths(Tail(ds), seen)
    ELSE <<Head(ds).path>> \o DocPaths(Tail(ds), seen \cup {Head(ds).path})

InfoPaths(infos) == { infos[i].rel : i \in 1..Len(infos) }

\* incrementalUpdate: the loaded paths that discovery no longer reports
RemovedPathsNone(ds, infos) == <<>>
RemovedPaths(ds, infos) ==
    SelectSeq(DocPaths(ds, {}), LAMBDA r : r \notin InfoPaths(infos))

\* ... and the discovered files that are new or whose size differs from the
\* stored fileSize
IsChangedAlways(ds, info) == TRUE
IsChangedOrEdited(ds, info) ==
    LET fresh == splitChunks(fs[info.rel].content, cfg.chunkSize, cfg.chunkOverlap)
    IN  \/ ~HasDocs(ds, info.rel)
        \/ FirstDocOf(ds, info.rel).fileSize # info.size
        \/ \E i \in 1..Len(ds) :
              /\ ds[i].path = info.rel
              /\ \A k \in 1..Len(fresh) : fresh[k] # ds[i].text
IsChangedManyChunks(ds, info) ==
    \/ ~HasDocs(ds, info.rel)
    \/ FirstDocOf(ds, info.rel).fileSize # info.size
    \/ Len(SelectSeq(ds, LAMBDA d : d.path = info.rel)) > 1
IsChanged(ds, info) ==
    \/ ~HasDocs(ds, info.rel)
    \/ FirstDocOf(ds, info.rel).fileSize # info.size

ChangedFiles(ds, infos) == SelectSeq(infos, LAMBDA fi : IsChanged(ds, fi))

\* the corpus after the removed files' chunks and the changed files' old
\* chunks are spliced out
ReconciledKeepsChanged(ds, infos) == WithoutPaths(ds, RemovedPaths(ds, infos))
ReconciledKeepsRemoved(ds, infos) ==
    WithoutPaths(ds, [i \in 1..Len(ChangedFiles(ds, infos)) |->
                        ChangedFiles(ds, infos)[i].rel])
Reconciled(ds, infos) ==
    LET afterRemoved == WithoutPaths(ds, RemovedPaths(ds, infos))
        changedRels == [i \in 1..Len(ChangedFiles(ds, infos)) |->
                           ChangedFiles(ds, infos)[i].rel]
    IN  WithoutPaths(afterRemoved, changedRels)

\* ------------------------------------------------------------------------
\* Spec: the server process building its index over a changing file tree
\* ------------------------------------------------------------------------
MaxBuilds == 2

NoFile == [exists |-> FALSE, content |-> <<>>, readable |-> TRUE]
TextFile(content) == [exists |-> TRUE, content |-> content, readable |-> TRUE]

\* what a path can hold: nothing, an empty file, text (two files of equal
\* size, one of another size and line count), a file that cannot be read
FileStates ==
    { NoFile,
      TextFile(<<>>),
      TextFile(<<"x", "y">>),
      TextFile(<<"y", "x">>),
      TextFile(<<"x", NL, "y">>),
      [exists |-> TRUE, content |-> <<"x", "y">>, readable |-> FALSE] }

\* the options the process is started with (CHUNK_SIZE, CHUNK_OVERLAP,
\* MODEL_NAME, INDEX_STORE_PATH set or not)
IndexerOptions ==
    { [chunkSize |-> 2, chunkOverlap |-> 1, modelName |-> <<"m">>, storePath |-> TRUE],
      [chunkSize |-> 3, chunkOverlap |-> 1, modelName |-> <<"m">>, storePath |-> TRUE],
      [chunkSize |-> 2, chunkOverlap |-> 5, modelName |-> <<"m">>, storePath |-> TRUE],
      [chunkSize |-> 2, chunkOverlap |-> 1, modelName |-> <<"n">>, storePath |-> TRUE],
      [chunkSize |-> 2, chunkOverlap |-> 1, modelName |-> <<"m">>, storePath |-> FALSE] }

Configs == { IndexerConfig(o) : o \in IndexerOptions }

FreshStatus ==
    [ready |-> FALSE, filesDiscovered |-> 0, chunksTotal |-> 0, chunksEmbedded |-> 0]

\* statusManager.setIndexTotals / incEmbedded / markReady
setIndexTotalsReady(st, files, chunks) ==
    [st EXCEPT !.filesDiscovered = files, !.chunksTotal = chunks, !.ready = TRUE]
setIndexTotals(st, files, chunks) ==
    [st EXCEPT !.filesDiscovered = files, !.chunksTotal = chunks]
incEmbeddedOnce(st, count) == [st EXCEPT !.chunksEmbedded = @ + 1]
incEmbedded(st, count) == [st EXCEPT !.chunksEmbedded = @ + count]
markReady(st) == [st EXCEPT !.ready = TRUE]

Init ==
    /\ HttpIdle
    /\ EmbedIdle
    /\ PdfIdle
    /\ ListIdle
    /\ ChunkIdle
    /\ PathIdle
    /\ QueryIdle
    /\ PersistIdle
    /\ fs \in [PathSet -> FileStates]
    /\ store = MissingStore
    /\ cfg \in Configs
    /\ docs = <<>>
    /\ built = FALSE
    /\ status = FreshStatus
    /\ pc = "idle"
    /\ queue = <<>>
    /\ pending = <<>>
    /\ curFile = <<>>
    /\ idCounter = 0
    /\ embIdx = 0
    /\ embeddedChunks = 0
    /\ mode = "none"
    /\ loadedDocs = <<>>
    /\ discovered = <<>>
    /\ embedCalls = 0
    /\ nBuilds = 0
    /\ since = "nothing"
    /\ noop = "none"
    /\ baseline = <<>>
    /\ useHttp \in BOOLEAN
    /\ transport = "unknown"
    /\ health = <<>>
    /\ served = <<>>

\* build() is called: the store is loaded; a usable store replaces the
\* corpus and the incremental update follows, otherwise the corpus is
\* emptied for a cold build
StartBuild ==
    /\ pc \in { "idle", "done" }
    /\ transport = "unknown"
    /\ nBuilds < MaxBuilds
    /\ LET loaded == IF cfg.storePath THEN Load(store, ParamsOf(cfg)) ELSE NotLoaded
       IN  IF ~loaded.null
           THEN /\ docs' = loaded.docs
                /\ loadedDocs' = loaded.docs
                /\ mode' = "incr"
                /\ pc' = "incr_discover"
           ELSE /\ docs' = <<>>
                /\ loadedDocs' = <<>>
                /\ mode' = "cold"
                /\ pc' = "cold_discover"
    /\ nBuilds' = nBuilds + 1
    /\ embedCalls' = 0
    /\ discovered' = <<>>
    /\ noop' = IF cfg.storePath THEN since ELSE "none"
    /\ queue' = <<>>
    /\ pending' = <<>>
    /\ curFile' = <<>>
    /\ idCounter' = 0
    /\ embIdx' = 0
    /\ embeddedChunks' = 0
    /\ UNCHANGED <<envVars, built, status, since, baseline, notBuildVars>>

\* cold build: discoverFiles() returns
ColdDiscover ==
    /\ pc = "cold_discover"
    /\ discovered' = discoverFiles(fs)
    /\ queue' = discoverFiles(fs)
    /\ idCounter' = 0
    /\ pc' = "cold_chunk"
    /\ UNCHANGED <<envVars, indexerVars, pending, curFile, embIdx, embeddedChunks,
                   mode, loadedDocs, embedCalls, nBuilds, since, noop, baseline, notBuildVars>>

\* cold build: one file is read and chunked
ColdChunkFile ==
    /\ pc = "cold_chunk"
    /\ queue # <<>>
    /\ LET info == Head(queue)
           content == readFileContent(fs, info.rel)
           new == IF content.null THEN <<>>
                  ELSE ChunkDocs(info.rel, info.size, content.text, cfg, idCounter)
       IN  /\ docs' = docs \o new
           /\ idCounter' = idCounter + Len(new)
    /\ queue' = Tail(queue)
    /\ UNCHANGED <<envVars, built, status, pc, pending, curFile, embIdx,
                   embeddedChunks, historyVars, notBuildVars>>

\* cold build: all files chunked, the totals are published
ColdTotals ==
    /\ pc = "cold_chunk"
    /\ queue = <<>>
    /\ status' = setIndexTotals(status, Len(discovered), Len(docs))
    /\ embIdx' = 0
    /\ pc' = "cold_embed"
    /\ UNCHANGED <<envVars, docs, built, queue, pending, curFile, idCounter,
                   embeddedChunks, historyVars, notBuildVars>>

\* cold build: one chunk is embedded
ColdEmbed ==
    /\ pc = "cold_embed"
    /\ embIdx < Len(docs)
    /\ docs' = [docs EXCEPT ![embIdx + 1].emb = EmbOf(Embed(docs[embIdx + 1].text))]
    /\ status' = incEmbedded(status, 1)
    /\ embIdx' = embIdx + 1
    /\ embedCalls' = embedCalls + 1
    /\ UNCHANGED <<envVars, built, pc, queue, pending, curFile, idCounter,
                   embeddedChunks, mode, loadedDocs, discovered, nBuilds, since, noop, baseline,
                   notBuildVars>>

\* cold build: the embedding loop is over
ColdFinish ==
    /\ pc = "cold_embed"
    /\ embIdx = Len(docs)
    /\ status' = markReady(status)
    /\ built' = TRUE
    /\ pc' = "save"
    /\ UNCHANGED <<envVars, docs, queue, pending, curFile, idCounter, embIdx,
                   embeddedChunks, historyVars, notBuildVars>>

\* incremental update: discovery, purge of removed and changed files, and
\* the fast path when nothing changed
IncrReconcile ==
    /\ pc = "incr_discover"
    /\ LET infos == discoverFiles(fs)
           removed == RemovedPaths(docs, infos)
           changed == ChangedFiles(docs, infos)
           kept == Reconciled(docs, infos)
       IN  /\ discovered' = infos
           /\ docs' = kept
           /\ IF removed = <<>> /\ changed = <<>>
              THEN /\ status' = markReady(incEmbedded(
                                   setIndexTotals(status, Len(infos), Len(kept)),
                                   Len(kept)))
                   /\ pc' = "save"
                   /\ queue' = <<>>
                   /\ idCounter' = idCounter
              ELSE /\ status' = status
                   /\ pc' = "incr_file"
                   /\ queue' = changed
                   /\ idCounter' = getMaxId(kept) + 1
    /\ embeddedChunks' = 0
    /\ UNCHANGED <<envVars, built, pending, curFile, embIdx, mode, loadedDocs,
                   embedCalls, nBuilds, since, noop, baseline, notBuildVars>>

\* incremental update: one changed file is read and chunked
IncrReadFile ==
    /\ pc = "incr_file"
    /\ queue # <<>>
    /\ LET file == Head(queue)
           content == readFileContent(fs, file.rel)
           new == IF content.null THEN <<>>
                  ELSE SelectSeq(ChunkDocs(file.rel, file.size, content.text, cfg, 0),
                                 LAMBDA d : d.text # <<>>)
       IN  /\ pending' = new
           /\ curFile' = file
           /\ pc' = IF new = <<>> THEN "incr_file" ELSE "incr_embed"
    /\ queue' = Tail(queue)
    /\ UNCHANGED <<envVars, indexerVars, idCounter, embIdx, embeddedChunks,
                   historyVars, notBuildVars>>

\* incremental update: one chunk is embedded and pushed
IncrEmbedChunk ==
    /\ pc = "incr_embed"
    /\ pending # <<>>
    /\ LET c == Head(pending)
       IN  docs' = Append(docs, [c EXCEPT !.id = ToDecimal(idCounter),
                                          !.emb = EmbOf(Embed(c.text))])
    /\ idCounter' = idCounter + 1
    /\ status' = incEmbedded(status, 1)
    /\ embeddedChunks' = embeddedChunks + 1
    /\ embedCalls' = embedCalls + 1
    /\ pending' = Tail(pending)
    /\ pc' = IF Tail(pending) = <<>> THEN "incr_file" ELSE "incr_embed"
    /\ UNCHANGED <<envVars, built, queue, curFile, embIdx, mode, loadedDocs,
                   discovered, nBuilds, since, noop, baseline, notBuildVars>>

\* incremental update: every changed file is done
IncrFinish ==
    /\ pc = "incr_file"
    /\ queue = <<>>
    /\ LET totals == setIndexTotals(status, Len(discovered), Len(docs))
           credited == Len(docs) - embeddedChunks
       IN  status' = markReady(IF credited > 0 THEN incEmbedded(totals, credited)
                               ELSE totals)
    /\ pc' = "save"
    /\ UNCHANGED <<envVars, docs, built, queue, pending, curFile, idCounter, embIdx,
                   embeddedChunks, historyVars, notBuildVars>>

\* an embed call rejects: build() rejects with it
EmbedFailsMarksReady ==
    /\ \/ pc = "cold_embed" /\ embIdx < Len(docs)
       \/ pc = "incr_embed" /\ pending # <<>>
    /\ embedCalls' = embedCalls + 1
    /\ pc' = "failed"
    /\ status' = markReady(status)
    /\ since' = IF since = "foreign" THEN "foreign" ELSE "nothing"
    /\ UNCHANGED <<envVars, docs, built, queue, pending, curFile, idCounter, embIdx,
                   embeddedChunks, mode, loadedDocs, discovered, nBuilds, noop, baseline,
                   notBuildVars>>
EmbedFails ==
    /\ \/ pc = "cold_embed" /\ embIdx < Len(docs)
       \/ pc = "incr_embed" /\ pending # <<>>
    /\ embedCalls' = embedCalls + 1
    /\ pc' = "failed"
    /\ since' = IF since = "foreign" THEN "foreign" ELSE "nothing"
    /\ UNCHANGED <<envVars, indexerVars, queue, pending, curFile, idCounter, embIdx,
                   embeddedChunks, mode, loadedDocs, discovered, nBuilds, noop, baseline,
                   notBuildVars>>

\* the corpus is persisted (when a store path is configured; a failed write
\* is logged) and build() returns
SaveIndexFatal ==
    /\ pc = "save"
    /\ \E writeOk \in BOOLEAN :
          /\ store' = IF cfg.storePath THEN Save(store, docs, ParamsOf(cfg), writeOk)
                      ELSE store
          /\ since' = IF cfg.storePath /\ writeOk
                      THEN (IF mode = "incr" /\ noop = "foreign" THEN "foreign"
                            ELSE "intact")
                      ELSE IF since = "foreign" THEN "foreign"
                      ELSE "sized"
          /\ baseline' = IF cfg.storePath /\ writeOk
                         THEN <<[files |-> fs, resizes |-> TRUE,
                                 faithful |-> ChunkFacts(docs) = ColdFacts(fs, cfg)]>>
                         ELSE baseline
          /\ pc' = IF cfg.storePath /\ ~writeOk THEN "failed" ELSE "done"
    /\ built' = TRUE
    /\ UNCHANGED <<fs, cfg, docs, status, queue, pending, curFile, idCounter, embIdx,
                   embeddedChunks, mode, loadedDocs, discovered, embedCalls, nBuilds,
                   noop, notBuildVars>>
SaveIndex ==
    /\ pc = "save"
    /\ \E writeOk \in BOOLEAN :
          /\ store' = IF cfg.storePath THEN Save(store, docs, ParamsOf(cfg), writeOk)
                      ELSE store
          /\ since' = IF cfg.storePath /\ writeOk
                      THEN (IF mode = "incr" /\ noop = "foreign" THEN "foreign"
                            ELSE "intact")
                      ELSE IF since = "foreign" THEN "foreign"
                      ELSE "sized"
          /\ baseline' = IF cfg.storePath /\ writeOk
                         THEN <<[files |-> fs, resizes |-> TRUE,
                                 faithful |-> ChunkFacts(docs) = ColdFacts(fs, cfg)]>>
                         ELSE baseline
    /\ built' = TRUE
    /\ pc' = "done"
    /\ UNCHANGED <<fs, cfg, docs, status, queue, pending, curFile, idCounter, embIdx,
                   embeddedChunks, mode, loadedDocs, discovered, embedCalls, nBuilds,
                   noop, notBuildVars>>

\* between builds a file is created, deleted, edited or made (un)readable
FsChange ==
    /\ pc = "done"
    /\ nBuilds < MaxBuilds
    /\ \E p \in PathSet, f \in FileStates :
          /\ f # fs[p]
          /\ fs' = [fs EXCEPT ![p] = f]
          /\ since' = IF since = "foreign" THEN "foreign"
                      ELSE IF f.exists # fs[p].exists \/ FileSize(f) # FileSize(fs[p])
                      THEN "other"
                      ELSE IF f.readable # fs[p].readable /\ since = "intact"
                      THEN "sized"
                      ELSE since
          /\ baseline' = IF baseline = <<>> THEN <<>>
                         ELSE <<[baseline[1] EXCEPT !.resizes =
                                    @ /\ (f.exists # fs[p].exists
                                            \/ FileSize(f) # FileSize(fs[p]))]>>
    /\ UNCHANGED <<store, cfg, indexerVars, workVars, mode, loadedDocs, discovered,
                   embedCalls, nBuilds, noop, notBuildVars>>

\* a store file written elsewhere: two chunks under the given meta
ForeignDoc(id, rel) ==
    MkDoc(id, rel, 0, <<"z", "z">>, 2, 1, EmbOf(<<9>>))

ForeignStore(meta) ==
    [kind |-> "json", hasDocs |-> TRUE, meta |-> meta,
     docs |-> << SerializeDoc(ForeignDoc(<<"7">>, <<"a">>)),
                 SerializeDoc(ForeignDoc(<<"3">>, <<"c">>)) >>]

\* a store file whose two chunks of one path carry different file sizes
MixedStore ==
    [kind |-> "json", hasDocs |-> TRUE,
     meta |-> [chunkSize |-> JNum(2), chunkOverlap |-> JNum(1), modelName |-> JUndef],
     docs |-> << SerializeDoc(MkDoc(<<"7">>, <<"a">>, 0, <<"z", "z">>, 2, 1, EmbOf(<<9>>))),
                 SerializeDoc(MkDoc(<<"8">>, <<"a">>, 1, <<"z">>, 3, 1, EmbOf(<<9>>))) >>]

ForeignStores ==
    { MixedStore,
      ForeignStore([chunkSize |-> JNum(2), chunkOverlap |-> JNum(1), modelName |-> JUndef]),
      ForeignStore([chunkSize |-> JNum(2), chunkOverlap |-> JNum(0),
                    modelName |-> JStr(<<"m">>)]),
      ForeignStore([chunkSize |-> JNum(2), chunkOverlap |-> JNum(1),
                    modelName |-> JStr(<<"o">>)]) }

\* between builds the store file is deleted or overwritten from outside
StoreReplaced ==
    /\ pc = "done"
    /\ nBuilds < MaxBuilds
    /\ \E other \in { MissingStore, InvalidStore, NoDocsStore } \cup ForeignStores :
          /\ other # store
          /\ store' = other
    /\ since' = "foreign"
    /\ baseline' = <<>>
    /\ UNCHANGED <<fs, cfg, indexerVars, workVars, mode, loadedDocs, discovered,
                   embedCalls, nBuilds, noop, notBuildVars>>

\* the process exits and is started again, possibly with other options
Restart ==
    /\ pc \in { "done", "failed" }
    /\ nBuilds < MaxBuilds
    /\ \E c \in Configs :
          /\ cfg' = c
          /\ since' = IF since = "foreign" THEN "foreign"
                      ELSE IF c # cfg THEN "other"
                      ELSE since
    /\ docs' = <<>>
    /\ built' = FALSE
    /\ status' = FreshStatus
    /\ pc' = "idle"
    /\ queue' = <<>>
    /\ pending' = <<>>
    /\ curFile' = <<>>
    /\ idCounter' = 0
    /\ embIdx' = 0
    /\ embeddedChunks' = 0
    /\ useHttp' \in BOOLEAN
    /\ transport' = "unknown"
    /\ health' = <<>>
    /\ served' = <<>>
    /\ UNCHANGED <<fs, store, mode, loadedDocs, discovered, embedCalls, nBuilds, noop, baseline,
                   pathVars, queryVars, persistVars, chunkVars, listVars, pdfVars, embedVars, httpVars>>

\* the entry point, after `await indexer.build()`: the transport selected by
\* MCP_TRANSPORT is marked and started
StartTransportEarly ==
    /\ pc \notin { "idle", "failed" }
    /\ transport = "unknown"
    /\ transport' = IF useHttp THEN "http" ELSE "stdio"
    /\ UNCHANGED <<useHttp, health, served, buildVars, pathVars, queryVars, persistVars,
                   chunkVars, listVars, pdfVars, embedVars, httpVars>>
StartTransport ==
    /\ pc = "done"
    /\ transport = "unknown"
    /\ transport' = IF useHttp THEN "http" ELSE "stdio"
    /\ UNCHANGED <<useHttp, health, served, buildVars, pathVars, queryVars, persistVars,
                   chunkVars, listVars, pdfVars, embedVars, httpVars>>

\* GET /health: res.json(statusManager.getStatus())
HealthPoll ==
    /\ transport = "http"
    /\ health' = << [ready |-> status.ready, transport |-> transport,
                     indexing |-> [filesDiscovered |-> status.filesDiscovered,
                                   chunksTotal |-> status.chunksTotal,
                                   chunksEmbedded |-> status.chunksEmbedded]] >>
    /\ health' # health
    /\ UNCHANGED <<useHttp, transport, served, buildVars, pathVars, queryVars, persistVars,
                   chunkVars, listVars, pdfVars, embedVars, httpVars>>

Next ==
    \/ StartBuild
    \/ ColdDiscover \/ ColdChunkFile \/ ColdTotals \/ ColdEmbed \/ ColdFinish
    \/ IncrReconcile \/ IncrReadFile \/ IncrEmbedChunk \/ IncrFinish
    \/ EmbedFails
    \/ SaveIndex
    \/ FsChange \/ StoreReplaced \/ Restart
    \/ StartTransport \/ HealthPoll

Spec == Init /\ [][Next]_vars

\* ---- C1 ----------------------------------------------------------------
\* C1 as stated: with a store path configured, a build() that follows a
\* completed build() with no file added, removed or resized in between
\* makes no embed call and ends with the ready flag set.
C1_SecondBuildNoEmbed ==
    (pc = "done" /\ noop \in { "intact", "sized" }) =>
        (embedCalls = 0 /\ status.ready)

\* C1 amended: ... when moreover the completed build()'s save wrote the
\* store, the store and the configuration are the same, and no file changed
\* in readability, the second run makes no embed call and ends ready.
C1_SecondBuildNoEmbedIntact ==
    (pc = "done" /\ noop = "intact") => (embedCalls = 0 /\ status.ready)

\* a restarted process ran a second build() over an intact store holding
\* chunks and finished it
C1_Witness ==
    /\ pc = "done"
    /\ noop = "intact"
    /\ nBuilds = 2
    /\ mode = "incr"
    /\ Len(docs) >= 2
    /\ status.ready
    /\ status.chunksEmbedded = Len(docs)

\* ---- C2 ----------------------------------------------------------------
\* the incremental update has reconciled the loaded docs with the discovery
AfterReconcile ==
    mode = "incr" /\ pc \in { "incr_file", "incr_embed", "save", "done" }

\* C2: after an incremental update no chunk of the corpus has a path that
\* had chunks in the loaded store and is absent from the fresh discovery.
C2_RemovedPurged ==
    AfterReconcile =>
        \A i \in 1..Len(loadedDocs) :
            (\A k \in 1..Len(discovered) : discovered[k].rel # loadedDocs[i].path) =>
                \A j \in 1..Len(docs) : docs[j].path # loadedDocs[i].path

\* an incremental update finished that loaded chunks of a path no longer
\* discovered and kept chunks of another path
C2_Witness ==
    /\ mode = "incr"
    /\ pc = "done"
    /\ \E i \in 1..Len(loadedDocs) :
          /\ loadedDocs[i].path \in PathSet
          /\ \A k \in 1..Len(discovered) : discovered[k].rel # loadedDocs[i].path
    /\ docs # <<>>

\* ---- C3 ----------------------------------------------------------------
\* the paths that are discovered with the size their loaded chunks record
SameSizePaths ==
    { discovered[k].rel : k \in
        { k \in 1..Len(discovered) :
            /\ \E i \in 1..Len(loadedDocs) : loadedDocs[i].path = discovered[k].rel
            /\ \A i \in 1..Len(loadedDocs) :
                  loadedDocs[i].path = discovered[k].rel =>
                      loadedDocs[i].fileSize = discovered[k].size } }

\* C3: an incremental update leaves the chunks of every file still
\* discovered with an unchanged size exactly as loaded and in the same
\* relative order, and it makes one embed call for each chunk that is not
\* as loaded, hence none for a chunk of such a file.
C3_UnchangedKept ==
    AfterReconcile =>
        /\ SelectSeq(docs, LAMBDA d : d.path \in SameSizePaths) =
           SelectSeq(loadedDocs, LAMBDA d : d.path \in SameSizePaths)
        /\ embedCalls =
              Len(SelectSeq(docs, LAMBDA d :
                      \A j \in 1..Len(loadedDocs) : loadedDocs[j] # d))

\* an incremental update finished that kept the chunks of an unchanged file
\* and embedded chunks of a changed one
C3_Witness ==
    /\ mode = "incr"
    /\ pc = "done"
    /\ SameSizePaths # {}
    /\ embedCalls > 0
    /\ \E i \in 1..Len(docs) : docs[i].path \in SameSizePaths
    /\ \E i \in 1..Len(loadedDocs) : loadedDocs[i].path \notin SameSizePaths

StoreUnusable(file, c) ==
    \/ file.kind \in { "missing", "invalid" }
    \/ ~file.hasDocs
    \/ file.meta.chunkSize # JNum(c.chunkSize)
    \/ file.meta.chunkOverlap # JNum(c.chunkOverlap)
    \/ file.meta.modelName \notin { JUndef, JStr(<<>>), JStr(c.modelName) }

\* build() is past its load and before its save
BuildRunning ==
    pc \in { "cold_discover", "cold_chunk", "cold_embed",
             "incr_discover", "incr_file", "incr_embed", "save" }

\* C6: when the store is missing, invalid, without docs or incompatible,
\* load returns null and build() runs a cold build: nothing is taken from
\* the store and every chunk of the resulting corpus is freshly embedded.
C6_UnusableStoreColdBuild ==
    (BuildRunning /\ cfg.storePath /\ StoreUnusable(store, cfg)) =>
        /\ mode = "cold"
        /\ loadedDocs = <<>>
        /\ pc = "save" =>
              /\ embedCalls = Len(docs)
              /\ \A i \in 1..Len(docs) : docs[i].id = ToDecimal(i - 1)

\* a cold build completed over a store that holds chunks but was written
\* with another configuration
C6_Witness ==
    /\ pc = "save"
    /\ cfg.storePath
    /\ store.kind = "json" /\ store.hasDocs /\ store.docs # <<>>
    /\ StoreUnusable(store, cfg)
    /\ mode = "cold"
    /\ docs # <<>>

\* ---- C11 ---------------------------------------------------------------
\* lines lo..hi (1-based, inclusive) of a list of lines; none when lo > hi
LineRange(lines, lo, hi) ==
    IF hi < lo THEN <<>> ELSE [i \in 1..(hi - lo + 1) |-> lines[lo + i - 1]]

\* C11: with a line bound given, read_file on a file of N lines returns
\* exactly the lines max(1, startLine) .. min(N, endLine), joined by "\n"
\* (the empty string when the range is empty), whatever the bounds are; an
\* absent bound stands for 1 or N.
C11_LineRangeClamped ==
    (/\ pOp = "read_file"
     /\ pResult.kind = "Content"
     /\ (pStart # Null \/ pEnd # Null)) =>
        LET lines == SplitLines(DiskFiles[ReadFileTarget(pRoot, pArg).abs])
            lo == Max(1, IF pStart = Null THEN 1 ELSE pStart[1])
            hi == Min(Len(lines), IF pEnd = Null THEN Len(lines) ELSE pEnd[1])
        IN  pResult.val = JoinLines(LineRange(lines, lo, hi))

\* ------------------------------------------------------------------------
\* PdfExtractor: the extraction cache as read_file would consult it
\* ------------------------------------------------------------------------
\* PdfExtractor.isPdf: path.extname(filePath).toLowerCase() === ".pdf"
isPdf(filePath) ==
    LET segs == SplitSep(filePath)
        base == IF segs = <<>> THEN <<>> ELSE segs[Len(segs)]
        dots == { i \in 1..Len(base) : base[i] = "." }
        last == IF dots = {} THEN 0 ELSE CHOOSE i \in dots : \A j \in dots : j <= i
        ext == IF last <= 1 THEN <<>> ELSE Slice(base, last - 1, Len(base))
        lower(c) == IF c = "P" THEN "p" ELSE IF c = "D" THEN "d"
                    ELSE IF c = "F" THEN "f" ELSE c
    IN  [i \in 1..Len(ext) |-> lower(ext[i])] = <<".", "p", "d", "f">>

\* the entries of pdf-text-cache.json: absolute path -> [pdfSize, text];
\* one entry matches its file's size, the other is stale
PdfCacheEntries ==
    ( <<"/", "r", "/", "d", ".", "p", "d", "f">> :>
          [pdfSize |-> 2, text |-> <<"t", NL, "u">>] ) @@
    ( <<"/", "r", "x", "/", "d", ".", "P", "D", "F">> :>
          [pdfSize |-> 7, text |-> <<"v">>] )

\* PdfExtractor.getCachedText / getFromCache: the cached text when an entry
\* exists, its pdfSize equals the given size and its text is not empty
getFromCache(entries, pdfAbsPath, pdfSize) ==
    IF pdfAbsPath \notin DOMAIN entries THEN [null |-> TRUE, text |-> <<>>]
    ELSE IF entries[pdfAbsPath].pdfSize = pdfSize /\ entries[pdfAbsPath].text # <<>>
    THEN [null |-> FALSE, text |-> entries[pdfAbsPath].text]
    ELSE [null |-> TRUE, text |-> <<>>]

\* ---- C12 ---------------------------------------------------------------
\* C12: read_file (without line bounds) on an existing PDF under the root
\* returns the cached text when the cache holds an entry of the file's
\* current size, and otherwise fails with a not-indexed error; it never
\* returns the raw file.
C12_PdfServedFromCache ==
    (/\ pOp = "read_file"
     /\ pArg # <<>>
     /\ pStart = Null /\ pEnd = Null
     /\ ReadFileTarget(pRoot, pArg).ok
     /\ ReadFileTarget(pRoot, pArg).abs \in DOMAIN DiskFiles
     /\ isPdf(ReadFileTarget(pRoot, pArg).abs)) =>
        LET abs == ReadFileTarget(pRoot, pArg).abs
            cached == getFromCache(PdfCacheEntries, abs, Len(DiskFiles[abs]))
        IN  IF cached.null
            THEN pResult.kind = "NotIndexed"
            ELSE pResult = [kind |-> "Content", val |-> cached.text]

\* ------------------------------------------------------------------------
\* SpecChunk: splitChunks and the Indexer constructor on bounded inputs
\* ------------------------------------------------------------------------
MaxText == 6
MaxSize == 4

ChunkAlphabet == << "a", "b", "c", "d", "e", "f", "g", "h", "i", "j" >>

\* texts of every length up to MaxText: all characters distinct, or all
\* the same
ChunkTexts ==
    { [i \in 1..n |-> ChunkAlphabet[((i - 1) % 10) + 1]] : n \in 0..MaxText } \cup
    { [i \in 1..n |-> "x"] : n \in 1..MaxText }

\* sizes and overlaps: the small ones, and README's size=100, overlap=150
ChunkSizes == 0..MaxSize \cup { 100 }
ChunkOverlaps == -1..(MaxSize + 1) \cup { 15, 150 }

ChunkInit ==
    /\ HttpIdle
    /\ EmbedIdle
    /\ PdfIdle
    /\ ListIdle
    /\ ServerIdle
    /\ PathIdle
    /\ QueryIdle
    /\ PersistIdle
    /\ BuildIdle
    /\ cText \in ChunkTexts
    /\ cSize \in ChunkSizes
    /\ cOverlap \in ChunkOverlaps
    /\ cOp = "none"
    /\ cOut = <<>>

\* Indexer.splitChunks(text, size, overlap) is called
SplitChunksCall ==
    /\ cOp = "none"
    /\ cOp' = "split"
    /\ cOut' = splitChunks(cText, cSize, cOverlap)
    /\ UNCHANGED <<cText, cSize, cOverlap, notChunkVars>>

\* new Indexer({chunkSize, chunkOverlap, ...})
ConstructCall ==
    /\ cOp = "none"
    /\ cOp' = "construct"
    /\ cOut' = IndexerConfig([chunkSize |-> cSize, chunkOverlap |-> cOverlap,
                              modelName |-> <<"m">>, storePath |-> FALSE])
    /\ UNCHANGED <<cText, cSize, cOverlap, notChunkVars>>

ChunkNext == SplitChunksCall \/ ConstructCall

SpecChunk == ChunkInit /\ [][ChunkNext]_vars

\* splitChunks was called with 0 <= overlap < size
SplitCalledInRange == cOp = "split" /\ 0 <= cOverlap /\ cOverlap < cSize

\* ---- C13 ---------------------------------------------------------------
\* C13: for non-empty text and 0 <= overlap < size, chunk k (from 0) is the
\* substring of the text at offset k * (size - overlap), of length size or
\* up to the end of the text, and every position of the text lies in some
\* chunk.
C13_ChunksCoverText ==
    (SplitCalledInRange /\ cText # <<>>) =>
        LET stride == cSize - cOverlap
            off(k) == (k - 1) * stride
        IN  /\ \A k \in 1..Len(cOut) :
                  /\ off(k) < Len(cText)
                  /\ cOut[k] = [i \in 1..Min(cSize, Len(cText) - off(k)) |->
                                   cText[off(k) + i]]
            /\ \A pos \in 1..Len(cText) :
                  \E k \in 1..Len(cOut) :
                      off(k) < pos /\ pos <= off(k) + Len(cOut[k])

\* a text of distinct characters was split into three overlapping chunks
C13_Witness ==
    /\ SplitCalledInRange
    /\ Len(cText) = 5 /\ cText[1] # cText[2]
    /\ cSize = 3 /\ cOverlap = 1
    /\ Len(cOut) = 3
    /\ cOut[2] = <<"c", "d", "e">>

\* ---- C14 ---------------------------------------------------------------
CeilDiv(a, b) == (a + b - 1) \div b

C16_EffectiveOverlap ==
    (cOp = "construct" /\ cSize >= 1) =>
        /\ cOut.chunkSize = cSize
        /\ cOut.chunkOverlap =
              IF cOverlap < cSize THEN cOverlap
              ELSE CHOOSE k \in 0..cSize :
                       100 * k <= 15 * cSize /\ 15 * cSize < 100 * (k + 1)
        /\ cOut.chunkOverlap < cSize

\* size 100 with overlap 150 was constructed with overlap 15
C16_Witness ==
    /\ cOp = "construct"
    /\ cSize = 100 /\ cOverlap = 150
    /\ cOut.chunkOverlap = 15

\* ---- C17 ---------------------------------------------------------------
\* build() has started and has not yet marked the index ready
BuildInProgress ==
    pc \in { "cold_discover", "cold_chunk", "cold_embed",
             "incr_discover", "incr_file", "incr_embed" }

\* C17: in HTTP mode /health is served while the build is still running
\* (so that a poll can return ready = false before ready = true).
C17_HealthServedDuringBuild ==
    (useHttp /\ BuildInProgress) => transport = "http"

\* ------------------------------------------------------------------------
\* list_files tool handler
\* ------------------------------------------------------------------------
Dirent(name, isDir, size) == [name |-> name, isDir |-> isDir, size |-> size]

\* The directories on disk: absolute path -> its entries (name, kind and,
\* for a file, the size fs.stat reports).
ListDirs ==
    ( <<"/", "r">> :>
        << Dirent(<<".", "h">>, TRUE, 0), Dirent(<<"a">>, FALSE, 6),
           Dirent(<<"b">>, TRUE, 0), Dirent(<<"d", ".", "p", "d", "f">>, FALSE, 2) >> ) @@
    ( <<"/", "r", "/", ".", "h">> :> << >> ) @@
    ( <<"/", "r", "/", "b">> :>
        << Dirent(<<"a", ".", "t">>, FALSE, 1), Dirent(<<"c">>, TRUE, 0),
           Dirent(<<"e">>, FALSE, 3) >> ) @@
    ( <<"/", "r", "/", "b", "/", "c">> :>
        << Dirent(<<"d">>, TRUE, 0), Dirent(<<"f", ".", "t">>, FALSE, 2) >> ) @@
    ( <<"/", "r", "/", "b", "/", "c", "/", "d">> :>
        << Dirent(<<"g", ".", "t">>, FALSE, 1) >> )

Reverse(seq) == [i \in 1..Len(seq) |-> seq[Len(seq) + 1 - i]]

\* fs.readdir(currentAbs, {withFileTypes: true}): the order of the entries
\* is the file system's, here either of two
ReadDir(currentAbs, rev) ==
    IF rev THEN Reverse(ListDirs[currentAbs]) ELSE ListDirs[currentAbs]

\* fs.stat(absBase): "dir", "file", or "none" when it rejects
StatKind(abs) ==
    IF abs \in DOMAIN ListDirs THEN "dir"
    ELSE IF \E p \in DOMAIN ListDirs : \E i \in 1..Len(ListDirs[p]) :
              /\ ~ListDirs[p][i].isDir
              /\ abs = p \o <<Sep>> \o ListDirs[p][i].name
    THEN "file"
    ELSE "none"

RECURSIVE StripLeadingSeps(_)
\* dir.replace(/^[\\/]+/, "")
StripLeadingSeps(dir) ==
    IF dir # <<>> /\ dir[1] \in {"/", "\\"} THEN StripLeadingSeps(Tail(dir)) ELSE dir

\* the handler's normalizedDir
NormalizedDir(dir) ==
    IF dir = <<".">> \/ dir = <<".", "/">> THEN <<>>
    ELSE IF StartsWith(dir, <<".", "/">>) THEN Slice(dir, 2, Len(dir))
    ELSE IF dir # <<>> /\ dir[1] \in {"/", "\\"} THEN StripLeadingSeps(dir)
    ELSE dir

\* const cap = Math.min(5000, Math.max(1, limit)), limit defaulting to 500
ListCap(limit) == Min(5000, Max(1, IF limit = Null THEN 500 ELSE limit[1]))

\* String.prototype.toLowerCase on the characters that occur
ToLowerChar(c) ==
    IF c = "T" THEN "t" ELSE IF c = "P" THEN "p" ELSE IF c = "D" THEN "d"
    ELSE IF c = "F" THEN "f" ELSE c
ToLower(str) == [i \in 1..Len(str) |-> ToLowerChar(str[i])]

\* extsSet: includeExtensions lower-cased and stripped of one leading dot,
\* or inactive when the list is omitted or empty
ExtsSet(includeExtensions) ==
    IF includeExtensions = Null THEN [active |-> FALSE, exts |-> {}]
    ELSE [active |-> TRUE,
          exts |-> { LET e == ToLower(includeExtensions[i])
                     IN  IF e # <<>> /\ e[1] = "." THEN Tail(e) ELSE e
                     : i \in 1..Len(includeExtensions) }]

\* d.name.includes(".") ? d.name.split(".").pop().toLowerCase() : ""
FileExt(name) ==
    LET dots == { i \in 1..Len(name) : name[i] = "." }
    IN  IF dots = {} THEN <<>>
        ELSE LET last == CHOOSE i \in dots : \A j \in dots : j <= i
             IN  ToLower(Slice(name, last, Len(name)))

\* path.relative(ROOT, relAbs) with "/" separators, for a path under ROOT
Relative(root, abs) ==
    IF abs = NormRootNoSep(root) THEN <<>>
    ELSE IF StartsWith(abs, NormRoot(root))
    THEN Slice(abs, Len(NormRoot(root)), Len(abs))
    ELSE abs

DirEntry(relToRoot) == [path |-> relToRoot, type |-> "dir", size |-> Null]
FileEntry(relToRoot, size) == [path |-> relToRoot, type |-> "file", size |-> <<size>>]

RECURSIVE Walk(_, _, _, _)
RECURSIVE WalkEntries(_, _, _, _, _, _)
\* the for loop of walk over dirents[i..]; a holds the call's root,
\* recursive, maxDepth, extsSet and cap
WalkEntries(a, currentAbs, depth, dirents, i, out) ==
    IF i > Len(dirents) \/ Len(out) >= a.cap THEN out
    ELSE LET d == dirents[i]
             relAbs == currentAbs \o <<Sep>> \o d.name
             relToRoot == Relative(a.root, relAbs)
         IN  IF d.isDir
             THEN LET pushed == IF a.extsSet.active THEN out
                                ELSE Append(out, DirEntry(relToRoot))
                      nextDepth == depth + 1
                      walked == IF a.recursive /\ (a.maxDepth = Null
                                                   \/ nextDepth <= a.maxDepth[1])
                                THEN Walk(a, relAbs, nextDepth, pushed)
                                ELSE pushed
                  IN  WalkEntries(a, currentAbs, depth, dirents, i + 1, walked)
             ELSE IF a.extsSet.active /\ FileExt(d.name) \notin a.extsSet.exts
             THEN WalkEntries(a, currentAbs, depth, dirents, i + 1, out)
             ELSE WalkEntries(a, currentAbs, depth, dirents, i + 1,
                              Append(out, FileEntry(relToRoot, d.size)))

\* async function walk(currentAbs, depth)
Walk(a, currentAbs, depth, out) ==
    IF Len(out) >= a.cap THEN out
    ELSE WalkEntries(a, currentAbs, depth, ReadDir(currentAbs, a.rev), 1, out)

\* the collation order of the characters that occur in paths
CollationOrder == <<".", "/", "a", "b", "c", "d", "e", "f", "g", "h", "p", "t">>
CollationRank(c) == CHOOSE i \in 1..Len(CollationOrder) : CollationOrder[i] = c

RECURSIVE localeCompare(_, _)
\* String.prototype.localeCompare: negative, zero or positive
localeCompare(x, y) ==
    IF x = <<>> THEN (IF y = <<>> THEN 0 ELSE -1)
    ELSE IF y = <<>> THEN 1
    ELSE IF CollationRank(Head(x)) < CollationRank(Head(y)) THEN -1
    ELSE IF CollationRank(Head(x)) > CollationRank(Head(y)) THEN 1
    ELSE localeCompare(Tail(x), Tail(y))

CompareEntriesByPath(x, y) == localeCompare(x.path, y.path)
\* the comparator handed to out.sort
CompareEntries(x, y) ==
    IF x.type # y.type THEN (IF x.type = "dir" THEN -1 ELSE 1)
    ELSE localeCompare(x.path, y.path)

RECURSIVE InsertEntry(_, _)
\* e placed after every element that does not compare greater (stable)
InsertEntry(sorted, e) ==
    IF sorted = <<>> THEN <<e>>
    ELSE IF CompareEntries(Head(sorted), e) <= 0
    THEN <<Head(sorted)>> \o InsertEntry(Tail(sorted), e)
    ELSE <<e>> \o sorted

RECURSIVE SortEntriesFrom(_, _)
SortEntriesFrom(out, acc) ==
    IF out = <<>> THEN acc
    ELSE SortEntriesFrom(Tail(out), InsertEntry(acc, Head(out)))

\* out.sort(comparator)
SortEntries(out) == SortEntriesFrom(out, <<>>)

\* the directory the call asks for, resolved under the root
ListBase(root, dir) == ensureWithinRoot(root, NormalizedDir(dir))

\* CallTool "list_files": {dir, recursive, maxDepth, includeExtensions, limit}
ListFilesHandler(root, dir, recursive, maxDepth, includeExtensions, limit, rev) ==
    LET absBase == ListBase(root, dir)
        a == [root |-> root, recursive |-> recursive, maxDepth |-> maxDepth,
              extsSet |-> ExtsSet(includeExtensions), cap |-> ListCap(limit),
              rev |-> rev]
    IN  IF ~absBase.ok THEN [kind |-> "InvalidRequest", entries |-> <<>>]
        ELSE IF StatKind(absBase.abs) # "dir"
        THEN [kind |-> "InvalidRequest", entries |-> <<>>]
        ELSE [kind |-> "Entries",
              entries |-> SortEntries(Walk(a, absBase.abs, 0, <<>>))]

\* ------------------------------------------------------------------------
\* SpecList: list_files applied to bounded arguments
\* ------------------------------------------------------------------------
MaxListDepth == 2
MaxLimit == 3

ListRoots == { <<"/", "r">>, <<"/", "r", "/">> }
\* "" stands for an omitted dir as well: both list the root
ListDirArgs == { <<>>, <<".">>, <<".", "/">>, <<"b">>, <<".", "/", "b">>,
                 <<"/", "b">>, <<"\\", "b">>, <<"b", "/", "c">>, <<".", "h">>,
                 <<"a">>, <<"g">>, <<".", ".">> }
DepthArgs == { Null } \cup { <<n>> : n \in 0..MaxListDepth }
ExtArgs == { Null, << <<".", "T">> >>, << <<"p", "d", "f">>, <<>> >> }
LimitArgs == { Null } \cup { <<n>> : n \in -1..MaxLimit } \cup { <<6000>> }

ListInit ==
    /\ HttpIdle
    /\ EmbedIdle
    /\ PdfIdle
    /\ PathIdle
    /\ QueryIdle
    /\ PersistIdle
    /\ BuildIdle
    /\ ChunkIdle
    /\ ServerIdle
    /\ lArgs \in [root : ListRoots, dir : ListDirArgs, recursive : BOOLEAN,
                  maxDepth : DepthArgs, includeExtensions : ExtArgs,
                  limit : LimitArgs, rev : BOOLEAN]
    /\ lOp = "none"
    /\ lOut = [kind |-> "none", entries |-> <<>>]

ListFilesCall ==
    /\ lOp = "none"
    /\ lOp' = "list_files"
    /\ lOut' = ListFilesHandler(lArgs.root, lArgs.dir, lArgs.recursive, lArgs.maxDepth,
                                lArgs.includeExtensions, lArgs.limit, lArgs.rev)
    /\ UNCHANGED <<lArgs, notListVars>>

ListNext == ListFilesCall

SpecList == ListInit /\ [][ListNext]_vars

\* the number of directory levels between the requested directory and the
\* entry: 0 for an immediate child
EntryDepth(root, base, entryPath) ==
    LET abs == Resolve(<<root, entryPath>>)
        below == Slice(abs, Len(base) + 1, Len(abs))
    IN  Cardinality({ i \in 1..Len(below) : below[i] = Sep })

EntryUnder(root, base, entryPath) ==
    StartsWith(Resolve(<<root, entryPath>>), base \o <<Sep>>)

Listed == lOp = "list_files" /\ lOut.kind = "Entries"

\* C18: list_files returns at most min(5000, max(1, limit)) entries; every
\* entry lies under the requested directory, at a depth of at most maxDepth
\* when recursive and as an immediate child otherwise; all directories come
\* before all files and each group is ordered by path.
C18_ListFilesBounded ==
    Listed =>
        LET es == lOut.entries
            base == ListBase(lArgs.root, lArgs.dir).abs
            lim == IF lArgs.limit = Null THEN 500 ELSE lArgs.limit[1]
        IN  /\ Len(es) <= Min(5000, Max(1, lim))
            /\ \A i \in 1..Len(es) :
                  /\ EntryUnder(lArgs.root, base, es[i].path)
                  /\ ~lArgs.recursive => EntryDepth(lArgs.root, base, es[i].path) = 0
                  /\ (lArgs.recursive /\ lArgs.maxDepth # Null)
                        => EntryDepth(lArgs.root, base, es[i].path) <= lArgs.maxDepth[1]
            /\ \A i, j \in 1..Len(es) :
                  i < j => /\ ~(es[i].type = "file" /\ es[j].type = "dir")
                           /\ es[i].type = es[j].type
                                 => localeCompare(es[i].path, es[j].path) < 0

\* a recursive listing cut off by the limit, holding a directory, a file and
\* an entry one level down
C18_Witness ==
    /\ Listed
    /\ lArgs.recursive
    /\ lArgs.maxDepth = <<1>>
    /\ lArgs.limit = <<3>>
    /\ Len(lOut.entries) = 3
    /\ \E i, j, k \in 1..3 :
          /\ lOut.entries[i].type = "dir"
          /\ lOut.entries[j].type = "file"
          /\ EntryDepth(lArgs.root, ListBase(lArgs.root, lArgs.dir).abs, lOut.entries[k].path) = 1

\* ------------------------------------------------------------------------
\* Ids across an incremental update
\* ------------------------------------------------------------------------
\* the incremental update of the current build() has reconciled the corpus
IncrReconciled == mode = "incr" /\ pc \in { "incr_file", "incr_embed", "save", "done" }

\* the ids of the loaded chunks the update purged: those of removed files
\* and of files whose size changed
PurgedIds ==
    LET gone == { RemovedPaths(loadedDocs, discovered)[k] :
                     k \in 1..Len(RemovedPaths(loadedDocs, discovered)) } \cup
                { ChangedFiles(loadedDocs, discovered)[k].rel :
                     k \in 1..Len(ChangedFiles(loadedDocs, discovered)) }
    IN  { loadedDocs[j].id : j \in { k \in 1..Len(loadedDocs) : loadedDocs[k].path \in gone } }

\* the ids of the chunks the update created: those behind the kept ones
NewIds ==
    LET kept == Len(Reconciled(loadedDocs, discovered))
    IN  { docs[i].id : i \in (kept + 1)..Len(docs) }

\* C19: during an incremental update no newly created chunk receives an id
\* that a chunk purged in that same update held.
C19_NoPurgedIdReused ==
    IncrReconciled => NewIds \cap PurgedIds = {}

\* ------------------------------------------------------------------------
\* One generation of chunks per path
\* ------------------------------------------------------------------------
\* build() has completed: cold, or incremental from the store as save left it
BuildCompleted ==
    /\ pc \in { "save", "done" }
    /\ mode = "cold" \/ (mode = "incr" /\ noop # "foreign")

\* C20: after every completed build() (cold, or incremental from a store
\* written by save) all chunks of the corpus that share a path have the
\* same fileSize and the same lineCount.
C20_OneGenerationPerPath ==
    BuildCompleted =>
        \A i, j \in 1..Len(docs) :
            docs[i].path = docs[j].path
                => /\ docs[i].fileSize = docs[j].fileSize
                   /\ docs[i].lineCount = docs[j].lineCount

\* an incremental update has re-ingested a resized file into several chunks
\* beside the kept chunks of another file
C20_Witness ==
    /\ BuildCompleted
    /\ mode = "incr"
    /\ \E p \in PathSet :
          /\ \E j \in 1..Len(loadedDocs) :
                /\ loadedDocs[j].path = p
                /\ \E k \in 1..Len(discovered) :
                      /\ discovered[k].rel = p
                      /\ discovered[k].size # loadedDocs[j].fileSize
          /\ Cardinality({ i \in 1..Len(docs) : docs[i].path = p }) >= 2
    /\ \E i \in 1..Len(docs) : \E j \in 1..Len(loadedDocs) : docs[i] = loadedDocs[j]

\* ------------------------------------------------------------------------
\* Chunk indices per path
\* ------------------------------------------------------------------------
\* the chunk indices of the chunks of path p, in corpus order
ChunkIndicesOf(ds, p) ==
    LET own == SelectSeq(ds, LAMBDA d : d.path = p)
    IN  [i \in 1..Len(own) |-> own[i].chunk]

\* C21: after every completed build() (cold, or incremental from a store
\* written by save) the chunk indices of each path's chunks are exactly
\* 0, 1, ..., n-1, once each and in increasing corpus order.
C21_ChunkIndicesContiguous ==
    BuildCompleted =>
        \A p \in PathSet :
            LET idx == ChunkIndicesOf(docs, p)
            IN  \A i \in 1..Len(idx) : idx[i] = i - 1

\* an incremental update has appended several chunks of a new or resized
\* file behind the kept chunks of the other file
C21_Witness ==
    /\ BuildCompleted
    /\ mode = "incr"
    /\ pc = "done"
    /\ \E p, q \in PathSet :
          /\ p # q
          /\ Len(ChunkIndicesOf(docs, p)) >= 2
          /\ Len(ChunkIndicesOf(loadedDocs, p)) # Len(ChunkIndicesOf(docs, p))
          /\ Len(ChunkIndicesOf(docs, q)) >= 2
          /\ SelectSeq(docs, LAMBDA d : d.path = q)
                = SelectSeq(loadedDocs, LAMBDA d : d.path = q)

\* ------------------------------------------------------------------------
\* Empty files
\* ------------------------------------------------------------------------
\* a build() is past discovery and has not returned: the tree is the one
\* discovery saw
PastDiscovery ==
    pc \in { "cold_chunk", "cold_embed", "incr_file", "incr_embed", "save" }

EmptyFile(p) == fs[p].exists /\ FileSize(fs[p]) = 0

\* C22: a file of size 0 never contributes a chunk to the corpus, in a cold
\* build or in an incremental update, and chunks it had in the loaded store
\* are purged.
C22_EmptyFileNoChunk ==
    PastDiscovery =>
        \A p \in PathSet :
            EmptyFile(p) => \A i \in 1..Len(docs) : docs[i].path # p

\* an incremental update has finished over a file that is empty now and had
\* chunks in the loaded store
C22_Witness ==
    /\ pc = "save"
    /\ mode = "incr"
    /\ \E p \in PathSet :
          /\ EmptyFile(p)
          /\ \E j \in 1..Len(loadedDocs) : loadedDocs[j].path = p
          /\ \A i \in 1..Len(docs) : docs[i].path # p

\* ------------------------------------------------------------------------
\* Edits that keep the size
\* ------------------------------------------------------------------------
ChunksOf(ds, p) == SelectSeq(ds, LAMBDA d : d.path = p)

\* path p was loaded with the size it has now, and its content is no longer
\* what its loaded chunks were cut from
EditedInPlace(p) ==
    /\ fs[p].exists
    /\ fs[p].readable
    /\ ChunksOf(loadedDocs, p) # <<>>
    /\ \A i \in 1..Len(loadedDocs) :
          loadedDocs[i].path = p => loadedDocs[i].fileSize = FileSize(fs[p])
    /\ [i \in 1..Len(ChunksOf(loadedDocs, p)) |-> ChunksOf(loadedDocs, p)[i].text]
          # splitChunks(fs[p].content, cfg.chunkSize, cfg.chunkOverlap)

\* C23: an incremental update does not re-chunk or re-embed a file whose
\* content was edited without changing its size: its chunks stay as loaded,
\* with their old text and embeddings.
C23_SameSizeEditKept ==
    (mode = "incr" /\ pc \in { "incr_file", "incr_embed", "save" }) =>
        \A p \in PathSet :
            EditedInPlace(p) => ChunksOf(docs, p) = ChunksOf(loadedDocs, p)

\* an incremental update over a store this process's save wrote has finished
\* with the stale chunks of an edited file still in the corpus
C23_Witness ==
    /\ mode = "incr"
    /\ pc = "save"
    /\ noop # "foreign"
    /\ \E p \in PathSet :
          /\ EditedInPlace(p)
          /\ ChunksOf(docs, p) # <<>>
          /\ \A i \in 1..Len(docs) : docs[i].path = p => docs[i].emb # NoEmb

\* ------------------------------------------------------------------------
\* Ids within one corpus
\* ------------------------------------------------------------------------
\* C24: after any sequence of completed build() calls that starts without a
\* store, the ids of the chunks in the corpus are pairwise distinct.
C24_IdsDistinct ==
    BuildCompleted =>
        \A i, j \in 1..Len(docs) : docs[i].id = docs[j].id => i = j

\* an incremental update over the store of the cold build has completed
\* with kept chunks, purged chunks and new chunks
C24_Witness ==
    /\ BuildCompleted
    /\ pc = "done"
    /\ mode = "incr"
    /\ Len(docs) >= 3
    /\ \E i \in 1..Len(docs) : \A j \in 1..Len(loadedDocs) : docs[i] # loadedDocs[j]
    /\ \E i \in 1..Len(docs) : \E j \in 1..Len(loadedDocs) : docs[i] = loadedDocs[j]
    /\ \E j \in 1..Len(loadedDocs) : \A i \in 1..Len(docs) : docs[i] # loadedDocs[j]

\* ------------------------------------------------------------------------
\* Ids of a cold build
\* ------------------------------------------------------------------------
\* C25: in a cold build the chunk at corpus position i (counted from 0) has
\* the id i as a decimal string, across file boundaries.
C25_ColdIdsSequential ==
    (mode = "cold" /\ pc \in { "cold_chunk", "cold_embed", "save", "done" }) =>
        \A i \in 1..Len(docs) : docs[i].id = ToDecimal(i - 1)

\* a cold build has completed over two files, the second file's chunks
\* continuing the first file's ids
C25_Witness ==
    /\ mode = "cold"
    /\ pc = "done"
    /\ Len(docs) >= 3
    /\ \E i \in 2..Len(docs) :
          /\ docs[i].path # docs[1].path
          /\ docs[i].chunk = 0
          /\ docs[i].id = ToDecimal(i - 1)

\* ------------------------------------------------------------------------
\* PdfExtractor.extractText
\* ------------------------------------------------------------------------
NoEntries == [q \in {} |-> [pdfSize |-> 0, text |-> <<>>]]

\* loadCacheStore: the entries of the cache file, none when the file is
\* missing, unparseable or without an entries object
LoadCacheStore(file) == IF file.kind = "json" THEN file.entries ELSE NoEntries

\* what PDFParse does with the file: it throws, or yields the text
ParseOutcomes ==
    { [ok |-> FALSE, text |-> <<>>],
      [ok |-> TRUE, text |-> <<>>],
      [ok |-> TRUE, text |-> <<"t">>],
      [ok |-> TRUE, text |-> <<"t", NL, "u">>] }

\* extractText(pdfAbsPath, pdfRelPath, pdfSize) on an extractor whose
\* cacheStore is cs and whose cache file is file; parse is what the parser
\* would do, writeOk whether saveCacheStore's write succeeds
extractText(cs, file, pdfAbsPath, pdfSize, parse, writeOk) ==
    LET entries == IF cs.loaded THEN cs.entries ELSE LoadCacheStore(file)
        cached == getFromCache(entries, pdfAbsPath, pdfSize)
    IN  IF ~cached.null
        THEN [text |-> cached.text, parsed |-> FALSE, before |-> entries,
              store |-> [loaded |-> TRUE, entries |-> entries], file |-> file]
        ELSE IF ~parse.ok
        THEN [text |-> <<>>, parsed |-> TRUE, before |-> entries,
              store |-> [loaded |-> TRUE, entries |-> entries], file |-> file]
        ELSE LET entry == [pdfSize |-> pdfSize, text |-> parse.text]
                 stored == [q \in DOMAIN entries \cup {pdfAbsPath} |->
                               IF q = pdfAbsPath THEN entry ELSE entries[q]]
             IN  [text |-> parse.text, parsed |-> TRUE, before |-> entries,
                  store |-> [loaded |-> TRUE, entries |-> stored],
                  file |-> IF writeOk THEN [kind |-> "json", entries |-> stored]
                           ELSE file]

\* ------------------------------------------------------------------------
\* SpecPdf: extractText called on one extractor over bounded inputs
\* ------------------------------------------------------------------------
MaxCalls == 2

PdfPaths == DOMAIN PdfCacheEntries
PdfSizes == { 2, 7 }

CacheFiles ==
    { [kind |-> "missing", entries |-> NoEntries],
      [kind |-> "corrupt", entries |-> NoEntries],
      [kind |-> "json", entries |-> NoEntries],
      [kind |-> "json", entries |-> PdfCacheEntries] }

NoCall == [abs |-> <<>>, size |-> 0, parse |-> [ok |-> FALSE, text |-> <<>>],
           before |-> NoEntries, text |-> <<>>, parsed |-> FALSE]

PdfInit ==
    /\ HttpIdle
    /\ EmbedIdle
    /\ PathIdle
    /\ QueryIdle
    /\ PersistIdle
    /\ BuildIdle
    /\ ChunkIdle
    /\ ServerIdle
    /\ ListIdle
    /\ xFile \in CacheFiles
    /\ xStore = [loaded |-> FALSE, entries |-> NoEntries]
    /\ xCall = NoCall
    /\ xCalls = 0

ExtractTextCall ==
    /\ xCalls < MaxCalls
    /\ \E abs \in PdfPaths, size \in PdfSizes, parse \in ParseOutcomes, writeOk \in BOOLEAN :
          LET r == extractText(xStore, xFile, abs, size, parse, writeOk)
          IN  /\ xStore' = r.store
              /\ xFile' = r.file
              /\ xCall' = [abs |-> abs, size |-> size, parse |-> parse,
                           before |-> r.before, text |-> r.text, parsed |-> r.parsed]
    /\ xCalls' = xCalls + 1
    /\ UNCHANGED notPdfVars

PdfNext == ExtractTextCall

SpecPdf == PdfInit /\ [][PdfNext]_vars

\* the cache held an entry for the call's path with the call's size
SizeMatched ==
    /\ xCall.abs \in DOMAIN xCall.before
    /\ xCall.before[xCall.abs].pdfSize = xCall.size

\* C26: extractText returns the cached text without parsing exactly when the
\* cache holds an entry for the absolute path whose size equals the given
\* size; otherwise it parses the file and, the parse succeeding, stores the
\* text under the absolute path and returns it.
C26_CacheHitIffSizeMatches ==
    xCalls > 0 =>
        IF SizeMatched
        THEN /\ ~xCall.parsed
             /\ xCall.text = xCall.before[xCall.abs].text
        ELSE /\ xCall.parsed
             /\ xCall.parse.ok =>
                   /\ xCall.text = xCall.parse.text
                   /\ xCall.abs \in DOMAIN xStore.entries
                   /\ xStore.entries[xCall.abs] =
                         [pdfSize |-> xCall.size, text |-> xCall.parse.text]

\* ------------------------------------------------------------------------
\* Failures
\* ------------------------------------------------------------------------
\* build() is running and has not reached its save
BuildUnderWay ==
    pc \in { "cold_discover", "cold_chunk", "cold_embed",
             "incr_discover", "incr_file", "incr_embed" }

\* C27: a build() fails only by a failing embed call; that step neither sets
\* the ready flag nor writes the store, no earlier step of the build did
\* (the flag is set only by the step that ends the build's work, the store
\* is written only after it), and nothing of the build runs afterwards.
C27_EmbedFailureFatal ==
    [][/\ (pc # "failed" /\ pc' = "failed") =>
              /\ pc \in { "cold_embed", "incr_embed" }
              /\ store' = store
              /\ status'.ready = status.ready
       /\ BuildUnderWay =>
              /\ store' = store
              /\ status'.ready # status.ready => pc' = "save"
       /\ pc = "failed" => (pc' = "idle" /\ ~status'.ready /\ store' = store)]_vars

\* an incremental update failed at its second embed call: the store still
\* holds what the cold build wrote and the flag is down
C27_Witness ==
    /\ pc = "failed"
    /\ mode = "incr"
    /\ embedCalls >= 2
    /\ ~status.ready
    /\ store.kind = "json"

\* C28: when the write of the index store fails, build() still returns
\* normally: the corpus is as it was before the save, every chunk carries
\* an embedding, and the ready flag is set.
C28_SaveFailureNotFatal ==
    [][(pc = "save" /\ cfg.storePath /\ store' # SavedStore(docs, ParamsOf(cfg))) =>
          /\ pc' = "done"
          /\ built'
          /\ docs' = docs
          /\ \A i \in 1..Len(docs') : docs'[i].emb # NoEmb
          /\ status'.ready]_vars

\* the first build() of a process returned with its corpus although the
\* store file could not be written
C28_Witness ==
    /\ pc = "done"
    /\ cfg.storePath
    /\ store = MissingStore
    /\ since = "sized"
    /\ Len(docs) >= 2
    /\ status.ready

\* ------------------------------------------------------------------------
\* SpecEmbed: the embedding loops of build(), one embed call at a time
\* ------------------------------------------------------------------------
\* Both loops have the shape `for (...) { x = await embed(text); ...;
\* statusManager.incEmbedded(); }`: the cold build walks the corpus, whose
\* chunks lie file by file in chunk order; the incremental update walks the
\* changed files and, in each, its chunks by index.
MaxEmbedFiles == 2
MaxEmbedChunks == 3

EmbedTexts == { <<"x">>, <<"y">> }
EmbedFiles == UNION { [1..n -> EmbedTexts] : n \in 0..MaxEmbedChunks }
EmbedWorks == UNION { [1..n -> EmbedFiles] : n \in 0..MaxEmbedFiles }

RECURSIVE LoopCallsFrom(_, _)
LoopCallsFrom(work, f) ==
    IF f > Len(work) THEN <<>>
    ELSE [k \in 1..Len(work[f]) |-> [file |-> f, chunk |-> k - 1, text |-> work[f][k]]]
            \o LoopCallsFrom(work, f + 1)

\* the iterations of the loop: one embed call each
LoopCalls(work) == LoopCallsFrom(work, 1)

EmbedInit ==
    /\ HttpIdle
    /\ PathIdle
    /\ QueryIdle
    /\ PersistIdle
    /\ BuildIdle
    /\ ChunkIdle
    /\ ServerIdle
    /\ ListIdle
    /\ PdfIdle
    /\ eWork \in EmbedWorks
    /\ ePc = "loop"
    /\ eDone = 0
    /\ eOut = <<>>
    /\ eLog = <<>>
    /\ eCount = 0

\* the loop body starts: embeddings.embed(text) is called and awaited
EmbedIssueEager ==
    /\ ePc \in { "loop", "await" }
    /\ Len(eLog) < Len(LoopCalls(eWork))
    /\ eOut' = Append(eOut, LoopCalls(eWork)[Len(eLog) + 1])
    /\ eLog' = Append(eLog, LoopCalls(eWork)[Len(eLog) + 1])
    /\ ePc' = "await"
    /\ UNCHANGED <<eWork, eDone, eCount, notEmbedVars>>
EmbedIssue ==
    /\ ePc = "loop"
    /\ eDone < Len(LoopCalls(eWork))
    /\ eOut' = Append(eOut, LoopCalls(eWork)[eDone + 1])
    /\ eLog' = Append(eLog, LoopCalls(eWork)[eDone + 1])
    /\ ePc' = "await"
    /\ UNCHANGED <<eWork, eDone, eCount, notEmbedVars>>

\* the awaited call resolves: the embedding is stored, incEmbedded() runs
\* and the loop goes on
EmbedResolve ==
    /\ ePc = "await"
    /\ eOut # <<>>
    /\ eOut' = Tail(eOut)
    /\ eCount' = eCount + 1
    /\ eDone' = eDone + 1
    /\ ePc' = "loop"
    /\ UNCHANGED <<eWork, eLog, notEmbedVars>>

\* the awaited call rejects: the loop is left
EmbedReject ==
    /\ ePc = "await"
    /\ eOut # <<>>
    /\ eOut' = Tail(eOut)
    /\ ePc' = "failed"
    /\ UNCHANGED <<eWork, eDone, eLog, eCount, notEmbedVars>>

\* the loop condition fails: every chunk is embedded
EmbedLoopEnd ==
    /\ ePc = "loop"
    /\ eDone = Len(LoopCalls(eWork))
    /\ ePc' = "done"
    /\ UNCHANGED <<eWork, eDone, eOut, eLog, eCount, notEmbedVars>>

EmbedNext == EmbedIssue \/ EmbedResolve \/ EmbedReject \/ EmbedLoopEnd

SpecEmbed == EmbedInit /\ [][EmbedNext]_vars

\* call c is for an earlier chunk than call d
EarlierChunk(c, d) ==
    c.file < d.file \/ (c.file = d.file /\ c.chunk < d.chunk)

\* C29: at most one embed call is outstanding at any time; the calls are
\* issued in chunk order, each for a chunk of the work and none skipped; the
\* embedded-count is the number of calls that have returned.
C29_EmbedSequential ==
    /\ Len(eOut) <= 1
    /\ \A i, j \in 1..Len(eLog) : i < j => EarlierChunk(eLog[i], eLog[j])
    /\ \A i \in 1..Len(eLog) :
          /\ eLog[i].file \in 1..Len(eWork)
          /\ eLog[i].chunk + 1 \in 1..Len(eWork[eLog[i].file])
          /\ eLog[i].text = eWork[eLog[i].file][eLog[i].chunk + 1]
          /\ i = eLog[i].chunk + 1
                 + Len(LoopCallsFrom(SubSeq(eWork, 1, eLog[i].file - 1), 1))
    /\ eCount = Len(eLog) - Len(eOut) - (IF ePc = "failed" THEN 1 ELSE 0)
    /\ ePc = "done" => eCount = Len(LoopCalls(eWork))

\* the first call for a chunk of the second file is outstanding, the calls
\* for the first file's two chunks have returned
C29_Witness ==
    /\ ePc = "await"
    /\ Len(eOut) = 1
    /\ Len(eLog) = 3
    /\ eCount = 2
    /\ eLog[3] = [file |-> 2, chunk |-> 0, text |-> <<"y">>]

\* ------------------------------------------------------------------------
\* Status counters at the end of a process's first build
\* ------------------------------------------------------------------------
\* C30: the step that completes the first build() of a process (the end of
\* the cold embedding loop, the incremental fast path, or the end of an
\* incremental update) leaves chunksEmbedded = chunksTotal = the number of
\* chunks in the corpus and filesDiscovered = the number of discovered files.
C30_FirstBuildCounters ==
    [][(~built /\ pc # "save" /\ pc' = "save") =>
          /\ status'.chunksEmbedded = Len(docs')
          /\ status'.chunksTotal = Len(docs')
          /\ status'.filesDiscovered = Len(discovered')]_vars

\* a restarted process has finished its first build() as an incremental
\* update that embedded some chunks and credited the kept ones
C30_Witness ==
    /\ pc = "save"
    /\ ~built
    /\ mode = "incr"
    /\ embedCalls > 0
    /\ Len(docs) > embedCalls
    /\ status.chunksEmbedded = Len(docs)
    /\ status.filesDiscovered = 2

\* ---------------------------------------------------------------------------
\* startHttpTransport (unnamed/part_005): the per-session routing of /mcp.
\* A session is one StreamableHTTPServerTransport and one Server; hSess lists
\* the sessions created, hMap holds the numbers of those registered in the
\* `transports` map (the id of session k is the k-th UUID issued).
\* ---------------------------------------------------------------------------
MaxSessions == 2

\* the most server.close() calls the model counts for one session
MaxCloses == 3

\* the mcp-session-id header of a request: missing, the empty string, the id
\* issued to session n (or never issued, n > MaxSessions), or a string that
\* names a property every object inherits ("constructor", "__proto__", ...)
NoHeader == [kind |-> "none", n |-> 0]

HeaderValues ==
    {NoHeader, [kind |-> "empty", n |-> 0], [kind |-> "inherited", n |-> 0]}
        \cup {[kind |-> "uuid", n |-> k] : k \in 1..(MaxSessions + 1)}

\* `sessionId ? ... : undefined`: a missing header and "" are both falsy
HasSessionId(header) == header.kind \notin {"none", "empty"}

\* transports[sessionId] on a plain object: an own key gives its transport,
\* an inherited property name gives a value that is no transport, anything
\* else undefined
TransportsLookup(map, header) ==
    IF ~HasSessionId(header) THEN "undefined"
    ELSE IF header.kind = "uuid" /\ header.n \in map THEN "transport"
    ELSE IF header.kind = "inherited" THEN "inherited"
    ELSE "undefined"

\* a transport and server just created: the onclose handler attached,
\* `closing` false, server.close() not called
NewSession == [sid |-> 0, closing |-> FALSE, attached |-> TRUE, closes |-> 0, pending |-> FALSE]

\* the onclose handler without its `closing` guard
OnCloseUnguarded(s) ==
    [s EXCEPT !.closing = TRUE, !.attached = FALSE,
              !.closes = Min(s.closes + 1, MaxCloses)]

\* transport.onclose: returns at once when closing; otherwise sets closing,
\* detaches itself and calls server.close()
OnClose(s) ==
    IF s.closing THEN s
    ELSE [s EXCEPT !.closing = TRUE, !.attached = FALSE, !.closes = s.closes + 1]

\* one run of the handler on session k: server.close(), when the run called
\* it, is left pending to close the transport again; the run deletes the
\* session id from the map
RunOnClose(k) ==
    LET s == hSess[k]
        r == OnClose(s)
    IN  /\ hSess' = [hSess EXCEPT ![k] =
                        [r EXCEPT !.pending = r.closes > s.closes]]
        /\ hMap' = IF r.closes > s.closes \/ r.closes = MaxCloses
                   THEN hMap \ {s.sid} ELSE hMap

Answer(method, header, isInit, code, created) ==
    <<[method |-> method, header |-> header, isInit |-> isInit,
       registered |-> header.kind = "uuid" /\ header.n \in hMap,
       closed |-> header.kind = "uuid" /\ header.n \in 1..Len(hSess)
                    /\ hSess[IF header.n \in 1..Len(hSess) THEN header.n ELSE 1].closing,
       status |-> code, created |-> created]>>

\* app.post("/mcp"): `accepted` is whether the SDK transport accepts the
\* initialize request and so issues the session id (onsessioninitialized)
PostMcp ==
    /\ \E header \in HeaderValues, isInit \in BOOLEAN, accepted \in BOOLEAN :
           LET found == TransportsLookup(hMap, header)
               k == Len(hSess) + 1
           IN  IF found = "undefined" /\ ~HasSessionId(header) /\ isInit
               THEN /\ k <= MaxSessions
                    /\ hSess' = Append(hSess, [NewSession EXCEPT !.sid = IF accepted THEN k ELSE 0])
                    /\ hMap' = IF accepted THEN hMap \cup {k} ELSE hMap
                    /\ hLast' = Answer("POST", header, isInit, IF accepted THEN 200 ELSE 406, TRUE)
               ELSE /\ hLast' = Answer("POST", header, isInit,
                                       CASE found = "undefined" -> 400
                                         [] found = "inherited" -> 500
                                         [] OTHER -> 200, FALSE)
                    /\ UNCHANGED <<hSess, hMap>>
    /\ UNCHANGED notHttpVars

\* handleSessionRequest for GET /mcp: a value that is no transport makes
\* handleRequest throw outside any try block (status 500, or no answer: 0)
GetMcp ==
    /\ \E header \in HeaderValues, err \in {0, 500} :
           LET found == TransportsLookup(hMap, header)
           IN  /\ (found # "inherited") => err = 500
               /\ hLast' = Answer("GET", header, FALSE,
                                  CASE found = "undefined" -> 400
                                    [] found = "inherited" -> err
                                    [] OTHER -> 200, FALSE)
               /\ UNCHANGED <<hSess, hMap>>
    /\ UNCHANGED notHttpVars

\* handleSessionRequest for DELETE /mcp: the transport of a registered
\* session handles the teardown by closing, which fires its onclose
DeleteMcp ==
    /\ \E header \in HeaderValues, err \in {0, 500} :
           LET found == TransportsLookup(hMap, header)
           IN  /\ (found # "inherited") => err = 500
               /\ hLast' = Answer("DELETE", header, FALSE,
                                  CASE found = "undefined" -> 400
                                    [] found = "inherited" -> err
                                    [] OTHER -> 200, FALSE)
               /\ IF found = "transport" /\ hSess[header.n].attached
                  THEN RunOnClose(header.n)
                  ELSE UNCHANGED <<hSess, hMap>>
    /\ UNCHANGED notHttpVars

\* the transport of a session closes for another reason and fires the
\* handler installed on it
TransportCloses ==
    /\ \E k \in 1..Len(hSess) :
           /\ hSess[k].attached
           /\ RunOnClose(k)
    /\ UNCHANGED hLast
    /\ UNCHANGED notHttpVars

\* server.close() closes the transport again, which calls the handler once
\* more, whether through transport.onclose or through a reference taken
\* when the server connected
ServerCloseRetriggers ==
    /\ \E k \in 1..Len(hSess) :
           /\ hSess[k].pending
           /\ hSess[k].closes < MaxCloses
           /\ RunOnClose(k)
    /\ UNCHANGED hLast
    /\ UNCHANGED notHttpVars

HttpInit ==
    /\ PathIdle /\ QueryIdle /\ PersistIdle /\ BuildIdle /\ ChunkIdle
    /\ ServerIdle /\ ListIdle /\ PdfIdle /\ EmbedIdle
    /\ hSess = <<>>
    /\ hMap = {}
    /\ hLast = <<>>

HttpNext == PostMcp \/ GetMcp \/ DeleteMcp \/ TransportCloses \/ ServerCloseRetriggers

SpecHttp == HttpInit /\ [][HttpNext]_vars

\* C31: a request creates a session only if it is a POST without a session
\* id whose body is an initialize request; every other request whose session
\* id is absent or not a key of the session map is answered 400 and creates
\* no session.
C31_SessionOnlyOnInitialize ==
    hLast # <<>> =>
        LET q == hLast[1]
            opens == q.method = "POST" /\ ~HasSessionId(q.header) /\ q.isInit
        IN  /\ q.created => opens
            /\ (~q.registered /\ ~opens) => (q.status = 400 /\ ~q.created)

\* C32: once the transport of a session has closed, its id is out of the
\* session map and server.close() has been called exactly once for it,
\* however often the close handler is re-entered; no session ever sees two
\* server.close() calls, and a request that carries the id of a closed
\* session is answered 400.
C32_CloseOnceThenRejected ==
    /\ \A k \in 1..Len(hSess) :
          /\ hSess[k].closes <= 1
          /\ hSess[k].closing => (hSess[k].closes = 1 /\ k \notin hMap)
    /\ (hLast # <<>> /\ hLast[1].closed) => hLast[1].status = 400

C32_Witness ==
    /\ hLast # <<>>
    /\ hLast[1].closed
    /\ hLast[1].status = 400
    /\ hLast[1].header.kind = "uuid"
    /\ hSess[hLast[1].header.n].sid = hLast[1].header.n
    /\ hSess[hLast[1].header.n].closes = 1
    /\ ~hSess[hLast[1].header.n].pending

\* ------------------------------------------------------------------------
\* Warm start against cold build
\* ------------------------------------------------------------------------
\* an incremental update has just completed on the store the last save
\* wrote, and every change of the files since that save added, removed or
\* resized a file
WarmAfterResizes ==
    /\ pc = "save"
    /\ mode = "incr"
    /\ baseline # <<>>
    /\ baseline[1].resizes

\* the store was saved with the chunks of a cold build of the files as they
\* were then
SavedFaithful == baseline # <<>> /\ baseline[1].faithful

\* no file has the size it had at the save with another content or
\* readability
NoFileEditedInPlace ==
    \A p \in PathSet :
        \/ fs[p] = baseline[1].files[p]
        \/ fs[p].exists # baseline[1].files[p].exists
        \/ FileSize(fs[p]) # FileSize(baseline[1].files[p])

C34_ReadyImpliesEmbedded ==
    (status.ready \/ built) => \A i \in 1..Len(docs) : docs[i].emb.has

\* C35: during and after every build, cold or incremental, the status
\* counter chunksEmbedded does not exceed chunksTotal.
C35_EmbeddedWithinTotal ==
    status.chunksEmbedded <= status.chunksTotal

\* ------------------------------------------------------------------------
\* Chunks saved without an embedding
\* ------------------------------------------------------------------------
\* C36: every chunk load returns has an embedding of at least one
\* component, and of a corpus that save wrote, the chunks without an
\* embedding (emb written as "") are not among the chunks a later load
\* returns.
C36_LoadRequiresEmbedding ==
    (sOp \in { "loaded", "reloaded" } /\ ~sLoaded.null) =>
        /\ \A k \in 1..Len(sLoaded.docs) :
              sLoaded.docs[k].emb.has /\ sLoaded.docs[k].emb.v # <<>>
        /\ (sOp = "reloaded" /\ sStore = SavedStore(sDocs, sParams)) =>
              Len(sLoaded.docs) <= Cardinality({ i \in 1..Len(sDocs) : sDocs[i].emb.has })

\* ------------------------------------------------------------------------
\* The server process: one build(), then the transport, then tool calls
\* ------------------------------------------------------------------------
\* the entry point's `await indexer.build()`: the only call of build(),
\* made once when the process starts
MainBuild ==
    /\ pc = "idle"
    /\ StartBuild

\* a CallTool request reaches the handler createServer registered: requests
\* arrive only over a started transport. served records the tool, where
\* build() stood, and whether every chunk getDocs() returned had emb
ToolCall ==
    /\ transport \in { "http", "stdio" }
    /\ \E tool \in { "rag_query", "read_file", "list_files" } :
          served' = << [tool |-> tool, during |-> pc, embedded |-> AllEmbedded(docs)] >>
    /\ served' # served
    /\ UNCHANGED <<useHttp, transport, health, buildVars, pathVars, queryVars,
                   persistVars, chunkVars, listVars, pdfVars, embedVars, httpVars>>

ServerNext ==
    \/ MainBuild
    \/ ColdDiscover \/ ColdChunkFile \/ ColdTotals \/ ColdEmbed \/ ColdFinish
    \/ IncrReconcile \/ IncrReadFile \/ IncrEmbedChunk \/ IncrFinish
    \/ EmbedFails
    \/ SaveIndex
    \/ FsChange \/ StoreReplaced \/ Restart
    \/ StartTransport \/ ToolCall

SpecServer == Init /\ [][ServerNext]_vars

\* build() is running
BuildInFlight ==
    pc \in { "cold_discover", "cold_chunk", "cold_embed",
             "incr_discover", "incr_file", "incr_embed", "save" }

C38_CorpusMatchesDiscovery ==
    pc \in { "save", "done" } =>
        \A i \in 1..Len(docs) :
            \E k \in 1..Len(discovered) :
                /\ discovered[k].rel = docs[i].path
                /\ discovered[k].size = docs[i].fileSize

\* C38 for the builds that are cold or start from a store written by save.
C38_CorpusMatchesDiscoverySaved ==
    BuildCompleted =>
        \A i \in 1..Len(docs) :
            \E k \in 1..Len(discovered) :
                /\ discovered[k].rel = docs[i].path
                /\ discovered[k].size = docs[i].fileSize

\* an incremental update has completed after one file was removed and the
\* other resized
C38_Witness ==
    /\ BuildCompleted
    /\ mode = "incr"
    /\ \E j \in 1..Len(loadedDocs) :
          \A k \in 1..Len(discovered) : discovered[k].rel # loadedDocs[j].path
    /\ \E j \in 1..Len(loadedDocs) : \E k \in 1..Len(discovered) :
          /\ discovered[k].rel = loadedDocs[j].path
          /\ discovered[k].size # loadedDocs[j].fileSize
    /\ docs # <<>>

\* ------------------------------------------------------------------------
\* The no-change fast path
\* ------------------------------------------------------------------------
\* a build() that follows a completed build() whose save wrote the store
\* has found the files, with the sizes, that the completed build found
NextBuildSameFiles ==
    /\ pc \in { "cold_chunk", "cold_embed", "incr_file", "incr_embed", "save", "failed" }
    /\ baseline # <<>>
    /\ discovered = discoverFiles(baseline[1].files)

\* the build is about to read a file it discovered, or has called the
\* embedding provider
ReadsOrEmbeds ==
    \/ pc \in { "cold_chunk", "incr_file" } /\ queue # <<>>
    \/ embedCalls > 0

\* C39 as stated: a build() that follows a completed build() and discovers
\* the same files with the same sizes reads no file and calls the embedding
\* provider zero times.
C39_SameFilesFastPath ==
    NextBuildSameFiles => ~ReadsOrEmbeds

\* every discovered file has a chunk in the loaded store
AllDiscoveredStored ==
    \A k \in 1..Len(discovered) :
        \E j \in 1..Len(loadedDocs) : loadedDocs[j].path = discovered[k].rel

\* C39: the same, for a build() that loaded the store the completed build
\* saved and finds in it a chunk for every discovered file: it goes from
\* discovery straight to the save.
C39_SameFilesFastPathStored ==
    (NextBuildSameFiles /\ mode = "incr" /\ AllDiscoveredStored)
        => (~ReadsOrEmbeds /\ pc = "save")

\* the fast path was taken over two stored files, one of them edited in
\* place since the save
C39_Witness ==
    /\ NextBuildSameFiles
    /\ mode = "incr"
    /\ AllDiscoveredStored
    /\ pc = "save"
    /\ Len(discovered) = 2
    /\ fs # baseline[1].files
    /\ status.ready

\* ------------------------------------------------------------------------
\* splitChunks: termination
\* ------------------------------------------------------------------------
\* the number of passes of the while loop from offset 0: each pass pushes
\* one chunk and advances i by step
LoopPasses(len, step) == (len + step - 1) \div step

\* C40: for every text and all size >= 0 and overlap, overlap >= size
\* included, the loop of splitChunks advances by at least one character per
\* pass, so it ends after at most one pass per character, and it returns at
\* most one chunk per character of the text.
C40_SplitTerminates ==
    (cOp = "split" /\ cSize >= 0) =>
        LET step == Max(1, cSize - cOverlap)
        IN  /\ step >= 1
            /\ Len(cOut) = LoopPasses(Len(cText), step)
            /\ Len(cOut) <= Len(cText)

\* a call with overlap >= size on a text of several characters returned one
\* chunk per character
C40_Witness ==
    /\ cOp = "split"
    /\ cSize >= 0
    /\ cOverlap >= cSize
    /\ Len(cText) >= 3
    /\ Len(cOut) = Len(cText)
====
